---- MODULE Spec2Model ----
(***************************************************************************)
(* State-machine model of the MajikUser domain entity                      *)
(* (src/src/core/majik-user.ts) and of the string helpers it relies on     *)
(* (src/src/utils.ts).                                                     *)
(*                                                                         *)
(* Strings are sequences of one-character strings, so that the regular     *)
(* expressions and trim() of the source are computed, not assumed.         *)
(* An optional JavaScript value is <<>> (undefined) or <<v>> (present).    *)
(* Instants (Date values) are natural numbers.                             *)
(***************************************************************************)
EXTENDS Integers, Sequences, FiniteSets, TLC

VARIABLES user, now, pc, last, focus, util, peer, shared, held

vars == <<user, now, pc, last, focus, util, peer, shared, held>>

(***************************************************************************)
(* Bounds                                                                  *)
(***************************************************************************)
\* The clock runs over 0..MaxTime.
MaxTime == 1

(***************************************************************************)
(* Strings                                                                 *)
(***************************************************************************)
Undef == <<>>

Some(v) == <<v>>

EmptyStr == <<>>

UpperCase == <<"A","B","C","D","E","F","G","H","I","J","K","L","M",
               "N","O","P","Q","R","S","T","U","V","W","X","Y","Z">>

LowerCase == <<"a","b","c","d","e","f","g","h","i","j","k","l","m",
               "n","o","p","q","r","s","t","u","v","w","x","y","z">>

Digits == {"0","1","2","3","4","5","6","7","8","9"}

\* \s of the regular expressions, restricted to the whitespace of the samples
WhiteSpace == {" "}

ToLowerChar(c) ==
    IF \E i \in 1..26 : UpperCase[i] = c
    THEN LowerCase[CHOOSE i \in 1..26 : UpperCase[i] = c]
    ELSE c

ToLower(s) == [i \in 1..Len(s) |-> ToLowerChar(s[i])]

ToUpperChar(c) ==
    IF \E i \in 1..26 : LowerCase[i] = c
    THEN UpperCase[CHOOSE i \in 1..26 : LowerCase[i] = c]
    ELSE c

ToUpper(s) == [i \in 1..Len(s) |-> ToUpperChar(s[i])]

\* s.split(" "): the stretches between the spaces, empty ones included
RECURSIVE SplitOnSpace(_)
SplitOnSpace(s) ==
    IF \A i \in 1..Len(s) : s[i] # " " THEN <<s>>
    ELSE LET i == CHOOSE k \in 1..Len(s) :
                     s[k] = " " /\ \A j \in 1..(k - 1) : s[j] # " "
         IN <<SubSeq(s, 1, i - 1)>> \o SplitOnSpace(SubSeq(s, i + 1, Len(s)))

\* String.prototype.includes / an unanchored literal pattern
Contains(s, pat) ==
    \E i \in 1..(Len(s) - Len(pat) + 1) : SubSeq(s, i, i + Len(pat) - 1) = pat

\* String.prototype.trim
RECURSIVE TrimLeft(_)
TrimLeft(s) ==
    IF s # <<>> /\ Head(s) \in WhiteSpace THEN TrimLeft(Tail(s)) ELSE s

RECURSIVE TrimRight(_)
TrimRight(s) ==
    IF s # <<>> /\ s[Len(s)] \in WhiteSpace
    THEN TrimRight(SubSeq(s, 1, Len(s) - 1))
    ELSE s

Trim(s) == TrimRight(TrimLeft(s))

\* email.split("@")[0]: the text before the first "@", all of it when none
SplitAtFirst(s) ==
    IF \E i \in 1..Len(s) : s[i] = "@"
    THEN SubSeq(s, 1, (CHOOSE i \in 1..Len(s) :
                          s[i] = "@" /\ \A j \in 1..(i - 1) : s[j] # "@") - 1)
    ELSE s

\* /^[^\s@]+@[^\s@]+\.[^\s@]+$/
EmailRegexTest(s) ==
    \E i \in 1..Len(s) : \E j \in 1..Len(s) :
        /\ s[i] = "@"
        /\ s[j] = "."
        /\ 1 < i
        /\ i + 1 < j
        /\ j < Len(s)
        /\ \A k \in (1..Len(s)) \ {i} : s[k] \notin (WhiteSpace \cup {"@"})

\* /^\+?[1-9]\d{1,14}$/
PhoneRegexTest(s) ==
    LET digits == IF s # <<>> /\ Head(s) = "+" THEN Tail(s) ELSE s
    IN /\ Len(digits) \in 2..15
       /\ digits[1] \in Digits \ {"0"}
       /\ \A k \in 2..Len(digits) : digits[k] \in Digits

\* /^\d{4}-\d{2}-\d{2}$/
BirthdateRegexTest(s) ==
    /\ Len(s) = 10
    /\ s[5] = "-"
    /\ s[8] = "-"
    /\ \A k \in {1,2,3,4,6,7,9,10} : s[k] \in Digits

(***************************************************************************)
(* DANGER_PATTERNS of src/src/utils.ts                                     *)
(***************************************************************************)
\* /<[^>]*>/ : an opening angle bracket closed later
HasAngleTag(s) ==
    \E i \in 1..Len(s) : \E j \in (i + 1)..Len(s) :
        /\ s[i] = "<"
        /\ s[j] = ">"
        /\ \A k \in (i + 1)..(j - 1) : s[k] # ">"

\* /onload=|onerror=|onclick=/i
HasEventHandler(s) ==
    \/ Contains(ToLower(s), <<"o","n","l","o","a","d","=">>)
    \/ Contains(ToLower(s), <<"o","n","e","r","r","o","r","=">>)
    \/ Contains(ToLower(s), <<"o","n","c","l","i","c","k","=">>)

\* /javascript:|data:/i
HasDangerScheme(s) ==
    \/ Contains(ToLower(s), <<"j","a","v","a","s","c","r","i","p","t",":">>)
    \/ Contains(ToLower(s), <<"d","a","t","a",":">>)

\* /<svg|<img|<script|<iframe|<object|<embed|<link|<meta|<style|<base/i
TagOpeners ==
    { <<"<","s","v","g">>, <<"<","i","m","g">>,
      <<"<","s","c","r","i","p","t">>, <<"<","i","f","r","a","m","e">>,
      <<"<","o","b","j","e","c","t">>, <<"<","e","m","b","e","d">>,
      <<"<","l","i","n","k">>, <<"<","m","e","t","a">>,
      <<"<","s","t","y","l","e">>, <<"<","b","a","s","e">> }

HasTagOpener(s) == \E opener \in TagOpeners : Contains(ToLower(s), opener)

\* [#\w]
EntityChars ==
    Digits \cup {UpperCase[i] : i \in 1..26} \cup {LowerCase[i] : i \in 1..26}
        \cup {"_", "#"}

\* index of the last character of the match of /<[^>]*>/ that starts at i,
\* 0 when there is none
TagEnd(s, i) ==
    IF s[i] = "<" /\ \E j \in (i + 1)..Len(s) : s[j] = ">"
    THEN CHOOSE j \in (i + 1)..Len(s) :
            s[j] = ">" /\ \A k \in (i + 1)..(j - 1) : s[k] # ">"
    ELSE 0

\* the same for /&[#\w]+;/
EntityEnd(s, i) ==
    IF s[i] = "&" /\ \E j \in (i + 2)..Len(s) :
                        /\ s[j] = ";"
                        /\ \A k \in (i + 1)..(j - 1) : s[k] \in EntityChars
    THEN CHOOSE j \in (i + 2)..Len(s) :
            s[j] = ";" /\ \A k \in (i + 1)..(j - 1) : s[k] \in EntityChars
    ELSE 0

\* /<[^>]*>|&[#\w]+;/ at i
GeneralEnd(s, i) == IF TagEnd(s, i) # 0 THEN TagEnd(s, i) ELSE EntityEnd(s, i)

\* pattern.test(s) of the pattern with the g flag: the search starts at
\* lastIndex; a match leaves lastIndex behind it, a failure resets it
GlobalTest(s, lastIndex) ==
    LET starts == {i \in (lastIndex + 1)..Len(s) : GeneralEnd(s, i) # 0}
    IN IF starts = {} THEN [found |-> FALSE, lastIndex |-> 0]
       ELSE LET i == CHOOSE a \in starts : \A b \in starts : a <= b
            IN [found |-> TRUE, lastIndex |-> GeneralEnd(s, i)]

\* s.replace(/p1|p2|.../gi, by) for literal alternatives
RECURSIVE ReplaceAll(_, _, _)
ReplaceAll(s, pats, by) ==
    IF s = <<>> THEN <<>>
    ELSE LET hits == {p \in pats : /\ Len(p) <= Len(s)
                                   /\ ToLower(SubSeq(s, 1, Len(p))) = p}
         IN IF hits # {}
            THEN LET p == CHOOSE h \in hits : TRUE
                 IN by \o ReplaceAll(SubSeq(s, Len(p) + 1, Len(s)), pats, by)
            ELSE <<Head(s)>> \o ReplaceAll(Tail(s), pats, by)

\* s.replace(/<[^>]*>/g, "")
RECURSIVE StripTags(_)
StripTags(s) ==
    IF s = <<>> THEN <<>>
    ELSE IF TagEnd(s, 1) # 0
    THEN StripTags(SubSeq(s, TagEnd(s, 1) + 1, Len(s)))
    ELSE <<Head(s)>> \o StripTags(Tail(s))

(***************************************************************************)
(* Sample inputs                                                           *)
(***************************************************************************)
\* "a@b.c"
EmailA == <<"a","@","b",".","c">>

\* "z@b.c"
EmailB == <<"z","@","b",".","c">>

\* "a@b" : no dot after the @
EmailNoDot == <<"a","@","b">>

\* "@b.c" : empty local part
EmailNoLocal == <<"@","b",".","c">>

EmailInputs == {EmailA, EmailB, EmailNoDot, EmptyStr}

NameAl == <<"A","l">>

Blank == <<" ">>

\* "<i>Al"
NameTag == <<"<","i",">","A","l">>

\* "onclick=x"
NameHandler == <<"o","n","c","l","i","c","k","=","x">>

\* "data:x"
NameScheme == <<"d","a","t","a",":","x">>

\* "Al "
NameTrailing == <<"A","l"," ">>

DisplayNameInputs == {NameAl, Blank, EmptyStr, NameTag, NameHandler, NameScheme,
                      NameTrailing}

IdU1 == <<"u","1">>

\* the identifiers uuidv4() may return
GeneratedIDs == {<<"g","1">>}

IdInputs == {Undef, Some(IdU1), Some(Blank)}

HashX == <<"h","2">>

HashInputs == {HashX, EmptyStr}

PhoneA == <<"+","1","2">>

PhoneB == <<"+","1","3">>

\* "012"
PhoneLeadingZero == <<"0","1","2">>

PhoneInputs == {PhoneA, PhoneB, PhoneLeadingZero}

BioPlain == <<"h","i">>

\* "I love <b>coding</b>"
BioMarkup == <<"I"," ","l","o","v","e"," ","<","b",">","c","o","d","i","n","g",
               "<","/","b",">">>

\* "I love coding"
BioMarkupClean == <<"I"," ","l","o","v","e"," ","c","o","d","i","n","g">>

\* "javascript:x"
BioScript == <<"j","a","v","a","s","c","r","i","p","t",":","x">>

BioInputs == {BioPlain, BioMarkup, BioScript}

LangEn == <<"e","n">>

\* "<u>en"
LangTag == <<"<","u",">","e","n">>

LanguageInputs == {LangEn, LangTag}

TzUTC == <<"U","T","C">>

\* "onload=UTC"
TzHandler == <<"o","n","l","o","a","d","=","U","T","C">>

TimezoneInputs == {TzUTC, TzHandler}

\* "2000-01-02"
DateStrA == <<"2","0","0","0","-","0","1","-","0","2">>

\* "2000-1-2" : not YYYY-MM-DD
\* "2023-02-30"
DateStrNoDay == <<"2","0","2","3","-","0","2","-","3","0">>

DateStrShort == <<"2","0","0","0","-","1","-","2">>

FullNameRec(f, l) ==
    [first_name |-> f, last_name |-> l, middle_name |-> Undef, suffix |-> Undef]

NameGood == FullNameRec(<<"A","l">>, <<"B","o">>)

NameBlankFirst == FullNameRec(Blank, <<"B","o">>)

NameBlankLast == FullNameRec(<<"A","l">>, EmptyStr)

\* "<b>Al"
NameMarkup == FullNameRec(<<"<","b",">","A","l">>, <<"B","o">>)

FullNameInputs == {NameGood, NameBlankFirst, NameBlankLast, NameMarkup}

AddressRec(city) == [city |-> city]

AddressInputs == {AddressRec(<<"Q","C">>), AddressRec(<<"<","p",">","Q","C">>)}

GenderInputs == {<<"m">>, <<"f">>}

\* "https://x"
UrlHttps == <<"h","t","t","p","s",":","/","/","x">>

\* "javascript:x"
UrlScript == <<"j","a","v","a","s","c","r","i","p","t",":","x">>

UrlInputs == {UrlHttps, UrlScript}

Platforms == {"twitter", "github"}

(***************************************************************************)
(* The entity                                                              *)
(***************************************************************************)
MetaKeys == {"name", "picture", "phone", "gender", "birthdate", "address",
             "pronouns", "bio", "language", "timezone", "verification",
             "social_links", "company"}

SettingKeys == {"notifications", "system", "theme"}

EmptyMetadata == [k \in MetaKeys |-> Undef]

VerificationRec(e, p, i) ==
    [email_verified |-> e, phone_verified |-> p, identity_verified |-> i]

SystemKeys == {"isRestricted", "restrictedUntil"}

\* settings.system; r and until are optional values
SystemRec(r, until) ==
    [k \in SystemKeys |-> IF k = "isRestricted" THEN r ELSE until]

\* { notifications: true, system: { isRestricted: false } }
DefaultSettings ==
    [k \in SettingKeys |->
        CASE k = "notifications" -> Some(TRUE)
          [] k = "system" -> Some(SystemRec(Some(FALSE), Undef))
          [] OTHER -> Undef]

\* getTime() of an Invalid Date
NaNTime == 0 - 1

\* a Date object and an ISO-8601 string, each standing for the instant t
DateValue(t) == [typ |-> "Date", t |-> t]

ISOString(t) == [typ |-> "string", t |-> t]

\* Date.prototype.toISOString of the Date at instant t
toISOString(t) == ISOString(t)

\* new Date(v) for a Date or an ISO string v: the instant it stands for
NewDate(v) == v.t

\* the constructor: copies the eight fields
MajikUser(data) ==
    [id |-> data.id,
     email |-> data.email,
     displayName |-> data.displayName,
     hash |-> data.hash,
     metadata |-> data.metadata,
     settings |-> data.settings,
     createdAt |-> data.createdAt,
     lastUpdate |-> data.lastUpdate]

\* the value of `user` while no entity has been constructed
NoUser ==
    MajikUser([id |-> EmptyStr, email |-> EmptyStr, displayName |-> EmptyStr,
               hash |-> EmptyStr, metadata |-> EmptyMetadata,
               settings |-> DefaultSettings, createdAt |-> 0, lastUpdate |-> 0])

\* outcome of a call: it returned (ok) or threw, and the entity it leaves
Returned(u) == [ok |-> TRUE, user |-> u]

Threw(u) == [ok |-> FALSE, user |-> u]

\* arrayToBase64(sha256(id)), kept as an injective rendering of the identifier
hashID(id) == <<"#">> \o id

validateEmail(email) == EmailRegexTest(email)

\* variant: the timestamp is not refreshed
updateTimestamp_Stale(u, t) == u

updateTimestamp(u, t) == [u EXCEPT !.lastUpdate = t]

isEmailVerified(u) ==
    IF u.metadata["verification"] = Undef
    THEN FALSE
    ELSE u.metadata["verification"][1].email_verified

isPhoneVerified(u) ==
    IF u.metadata["verification"] = Undef
    THEN FALSE
    ELSE u.metadata["verification"][1].phone_verified

isIdentityVerified(u) ==
    IF u.metadata["verification"] = Undef
    THEN FALSE
    ELSE u.metadata["verification"][1].identity_verified

isFullyVerified(u) ==
    isEmailVerified(u) /\ isPhoneVerified(u) /\ isIdentityVerified(u)

(***************************************************************************)
(* Factories                                                               *)
(***************************************************************************)
\* variant: the instance is returned without validateEmail
initialize_NoEmailCheck(email, displayName, id, genID, t1, t2) ==
    IF email = EmptyStr THEN Threw(NoUser)
    ELSE IF displayName = EmptyStr THEN Threw(NoUser)
    ELSE
      LET userID == IF id = Undef \/ Trim(id[1]) = EmptyStr THEN genID ELSE id[1]
      IN Returned(
            MajikUser([id |-> userID,
                       email |-> email,
                       displayName |-> displayName,
                       hash |-> hashID(userID),
                       metadata |-> [EmptyMetadata EXCEPT
                          !["verification"] =
                              Some(VerificationRec(FALSE, FALSE, FALSE))],
                       settings |-> DefaultSettings,
                       createdAt |-> t1,
                       lastUpdate |-> t2]))

\* t1, t2: the two readings of the clock (createdAt, lastUpdate)
initialize(email, displayName, id, genID, t1, t2) ==
    IF email = EmptyStr THEN Threw(NoUser)
    ELSE IF displayName = EmptyStr THEN Threw(NoUser)
    ELSE
      LET userID == IF id = Undef \/ Trim(id[1]) = EmptyStr THEN genID ELSE id[1]
          instance ==
            MajikUser([id |-> userID,
                       email |-> email,
                       displayName |-> displayName,
                       hash |-> hashID(userID),
                       metadata |-> [EmptyMetadata EXCEPT
                          !["verification"] =
                              Some(VerificationRec(FALSE, FALSE, FALSE))],
                       settings |-> DefaultSettings,
                       createdAt |-> t1,
                       lastUpdate |-> t2])
      IN IF validateEmail(email) THEN Returned(instance) ELSE Threw(NoUser)

\* a JSON value: its typeof and, for a string, its text
JStr(s) == [typ |-> "string", val |-> s]

JNum == [typ |-> "number", val |-> EmptyStr]

JUndef == [typ |-> "undefined", val |-> EmptyStr]

\* !v || typeof v !== "string"
MissingOrInvalid(v) == v.typ # "string" \/ v.val = EmptyStr

\* JSON.stringify of a toJSON() structure, held as the document it denotes:
\* a Date member is written by its toISOString(), so it is a string in the
\* document; a member that is undefined is not written
JSONStringify(json) ==
    LET dateToString(v) == IF v # Undef /\ v[1].typ = "Date"
                           THEN Some(toISOString(v[1].t)) ELSE v
        settings ==
            IF json.settings = Undef \/ json.settings[1]["system"] = Undef
            THEN json.settings
            ELSE Some([json.settings[1] EXCEPT !["system"] =
                          Some([@[1] EXCEPT !["restrictedUntil"] =
                                   dateToString(@)])])
    IN [text |-> [json EXCEPT !.settings = settings]]

\* typeof json === "string"
IsString(json) == "text" \in DOMAIN json

\* JSON.parse: the structure of the document, strings left as strings
JSONParse(json) == json.text

\* variant: the hash is looked at first
fromJSONError_HashFirst(data) ==
    IF MissingOrInvalid(data.hash)
    THEN "Invalid user data: missing or invalid hash"
    ELSE IF MissingOrInvalid(data.id)
    THEN "Invalid user data: missing or invalid id"
    ELSE IF MissingOrInvalid(data.email)
    THEN "Invalid user data: missing or invalid email"
    ELSE IF MissingOrInvalid(data.displayName)
    THEN "Invalid user data: missing or invalid displayName"
    ELSE ""

\* the message of the error fromJSON throws for data, "" when it throws none
fromJSONError(data) ==
    IF MissingOrInvalid(data.id)
    THEN "Invalid user data: missing or invalid id"
    ELSE IF MissingOrInvalid(data.email)
    THEN "Invalid user data: missing or invalid email"
    ELSE IF MissingOrInvalid(data.displayName)
    THEN "Invalid user data: missing or invalid displayName"
    ELSE IF MissingOrInvalid(data.hash)
    THEN "Invalid user data: missing or invalid hash"
    ELSE ""

fromJSON(json, t) ==
    LET data == IF IsString(json) THEN JSONParse(json) ELSE json IN
    IF fromJSONError(data) # "" THEN Threw(NoUser)
    ELSE Returned(MajikUser(
           [id |-> data.id.val,
            email |-> data.email.val,
            displayName |-> data.displayName.val,
            hash |-> data.hash.val,
            metadata |-> IF data.metadata = Undef THEN EmptyMetadata
                         ELSE data.metadata[1],
            settings |-> IF data.settings = Undef THEN DefaultSettings
                         ELSE data.settings[1],
            createdAt |-> IF data.createdAt = Undef THEN t
                          ELSE NewDate(data.createdAt[1]),
            lastUpdate |-> IF data.lastUpdate = Undef THEN t
                           ELSE NewDate(data.lastUpdate[1])]))

UserMetaKeys == {"display_name", "full_name", "name", "first_name",
                 "family_name", "middle_name", "suffix", "picture",
                 "avatar_url", "bio", "phone", "gender", "birthdate",
                 "language", "timezone", "pronouns", "address",
                 "social_links", "company"}

AppMetaKeys == {"notifications", "is_restricted", "restricted_until", "theme",
                "system"}

\* JavaScript truthiness of an optional string
TruthyStr(o) == o # Undef /\ o[1] # EmptyStr

\* a || b on optional strings
OrElse(a, b) == IF TruthyStr(a) THEN a ELSE b

\* v || ""
OrEmpty(o) == IF TruthyStr(o) THEN o[1] ELSE EmptyStr

fromSupabase(su) ==
    IF ~TruthyStr(su.id) THEN Threw(NoUser)
    ELSE IF ~TruthyStr(su.email) THEN Threw(NoUser)
    ELSE
      LET hasMeta == su.user_metadata # Undef
          um == IF hasMeta THEN su.user_metadata[1]
                ELSE [k \in UserMetaKeys |-> Undef]
          hasApp == su.app_metadata # Undef
          am == IF hasApp THEN su.app_metadata[1]
                ELSE [k \in AppMetaKeys |-> Undef]
          displayName ==
            OrElse(um["display_name"],
              OrElse(um["full_name"],
                OrElse(um["name"], Some(SplitAtFirst(su.email[1])))))[1]
          copied(k) == IF TruthyStr(um[k]) THEN um[k] ELSE Undef
          metadata ==
            [k \in MetaKeys |->
               CASE k = "verification" ->
                      Some(VerificationRec(su.email_confirmed_at # Undef,
                                           su.phone_confirmed_at # Undef,
                                           FALSE))
                 [] k = "name" ->
                      IF TruthyStr(um["first_name"]) \/ TruthyStr(um["family_name"])
                      THEN Some([first_name |-> OrEmpty(um["first_name"]),
                                 last_name |-> OrEmpty(um["family_name"]),
                                 middle_name |-> um["middle_name"],
                                 suffix |-> um["suffix"]])
                      ELSE Undef
                 [] k = "picture" ->
                      OrElse(um["picture"], copied("avatar_url"))
                 [] k \in {"bio", "phone", "gender", "birthdate", "language",
                           "timezone", "pronouns"} -> copied(k)
                 [] OTHER -> um[k]]
          settings ==
            [k \in SettingKeys |->
               CASE k = "notifications" ->
                      IF am["notifications"] = Undef THEN Some(TRUE)
                      ELSE am["notifications"]
                 \* settings[key] = app_metadata[key] runs after the literal,
                 \* for the key "system" as for any other
                 [] k = "system" ->
                      IF am["system"] # Undef THEN am["system"]
                      ELSE Some(SystemRec(
                        IF am["is_restricted"] = Undef THEN Some(FALSE)
                        ELSE am["is_restricted"],
                        IF am["restricted_until"] = Undef THEN Undef
                        ELSE Some(DateValue(NewDate(am["restricted_until"][1])))))
                 [] OTHER -> am[k]]
      IN Returned(MajikUser(
           [id |-> su.id[1],
            email |-> su.email[1],
            displayName |-> displayName,
            hash |-> hashID(su.id[1]),
            metadata |-> metadata,
            settings |-> settings,
            createdAt |-> su.created_at,
            lastUpdate |-> IF su.updated_at = Undef THEN su.created_at
                           ELSE su.updated_at[1]]))

(***************************************************************************)
(* Setters                                                                 *)
(***************************************************************************)
\* variant: the verification flag survives the change
setEmail_KeepsFlag(u, value, t) ==
    IF ~EmailRegexTest(value) THEN Threw(u)
    ELSE Returned([u EXCEPT !.email = value, !.lastUpdate = t])

\* variant: the value is stored before it is validated
setEmail_AssignFirst(u, value, t) ==
    LET u1 == [u EXCEPT !.email = value]
    IN IF ~EmailRegexTest(value) THEN Threw(u1)
       ELSE Returned([u1 EXCEPT !.lastUpdate = t])

\* variant: the digest is recomputed on an email change
setEmail_Rehash(u, value, t) ==
    IF ~EmailRegexTest(value) THEN Threw(u)
    ELSE Returned([u EXCEPT !.email = value, !.hash = <<"#">> \o value,
                            !.lastUpdate = t])

setEmail(u, value, t) ==
    IF ~validateEmail(value) THEN Threw(u)
    ELSE
      LET u1 == [u EXCEPT !.email = value]
          u2 == IF u1.metadata["verification"] # Undef
                THEN [u1 EXCEPT !.metadata["verification"] =
                         Some([@[1] EXCEPT !.email_verified = FALSE])]
                ELSE u1
      IN Returned(updateTimestamp(u2, t))

setDisplayName(u, value, t) ==
    IF value = EmptyStr \/ Len(Trim(value)) = 0 THEN Threw(u)
    ELSE Returned(updateTimestamp([u EXCEPT !.displayName = value], t))

setHash(u, value, t) ==
    IF value = EmptyStr \/ Len(value) = 0 THEN Threw(u)
    ELSE Returned(updateTimestamp([u EXCEPT !.hash = value], t))

setFullNameObject(u, name, t) ==
    IF Trim(name.first_name) = EmptyStr \/ Trim(name.last_name) = EmptyStr
    THEN Threw(u)
    ELSE Returned(updateTimestamp(
           [u EXCEPT !.metadata["name"] = Some(name)], t))

(***************************************************************************)
(* Metadata methods                                                        *)
(***************************************************************************)
\* this._metadata[key] = value
setMetadata(u, key, value, t) ==
    Returned(updateTimestamp([u EXCEPT !.metadata[key] = value], t))

\* this._metadata = { ...this._metadata, ...updates }
updateMetadata(u, updates, t) ==
    Returned(updateTimestamp(
      [u EXCEPT !.metadata =
          [k \in MetaKeys |-> IF k \in DOMAIN updates THEN updates[k] ELSE @[k]]],
      t))

setName(u, name, t) == updateMetadata(u, "name" :> Some(name), t)

setPicture(u, url, t) == updateMetadata(u, "picture" :> Some(url), t)

setPhone(u, phone, t) ==
    LET u1 == updateMetadata(u, "phone" :> Some(phone), t).user
    IN Returned(IF u1.metadata["verification"] # Undef
                THEN [u1 EXCEPT !.metadata["verification"] =
                         Some([@[1] EXCEPT !.phone_verified = FALSE])]
                ELSE u1)

setAddress(u, address, t) == updateMetadata(u, "address" :> Some(address), t)

\* decimal digits of a natural number
RECURSIVE NatToStr(_)
NatToStr(n) ==
    LET d == <<"0","1","2","3","4","5","6","7","8","9">>[(n % 10) + 1]
    IN IF n < 10 THEN <<d>> ELSE NatToStr(n \div 10) \o <<d>>

\* String(n).padStart(2, "0")
PadStart2(s) == IF Len(s) < 2 THEN <<"0">> \o s ELSE s

\* a Date: valid is FALSE for an Invalid Date (getTime() is NaN)
DateObj(y, m, d) == [valid |-> TRUE, year |-> y, month |-> m, day |-> d]

InvalidDate == [valid |-> FALSE, year |-> 0, month |-> 1, day |-> 1]

dateToYYYYMMDD(date) ==
    NatToStr(date.year) \o <<"-">> \o PadStart2(NatToStr(date.month))
        \o <<"-">> \o PadStart2(NatToStr(date.day))

\* Number("...") of a string of decimal digits
RECURSIVE DigitsToNat(_)
DigitsToNat(s) ==
    IF s = <<>> THEN 0
    ELSE LET i == CHOOSE k \in 0..9 : NatToStr(k) = <<s[Len(s)]>>
         IN 10 * DigitsToNat(SubSeq(s, 1, Len(s) - 1)) + i

IsLeapYear(y) == (y % 4 = 0 /\ y % 100 # 0) \/ y % 400 = 0

DaysInMonth(y, m) ==
    CASE m \in {4, 6, 9, 11} -> 30
      [] m = 2 -> IF IsLeapYear(y) THEN 29 ELSE 28
      [] OTHER -> 31

\* YYYYMMDDToDate returns: new Date(year, month - 1, day) gives back the
\* year, month and day it was built from (a year below 100 becomes 19xx)
YYYYMMDDToDateReturns(s) ==
    /\ BirthdateRegexTest(s)
    /\ LET year == DigitsToNat(SubSeq(s, 1, 4))
           month == DigitsToNat(SubSeq(s, 6, 7))
           day == DigitsToNat(SubSeq(s, 9, 10))
       IN /\ year >= 100
          /\ month \in 1..12
          /\ day \in 1..DaysInMonth(year, month)

\* the argument of setBirthdate: a string or a Date
BirthStr(s) == [isDate |-> FALSE, str |-> s, date |-> InvalidDate]

BirthDate(d) == [isDate |-> TRUE, str |-> EmptyStr, date |-> d]

BirthdateInputs == {BirthStr(DateStrA), BirthStr(DateStrShort),
                    BirthStr(DateStrNoDay),
                    BirthDate(DateObj(2001, 3, 4)), BirthDate(InvalidDate),
                    BirthDate(DateObj(999, 3, 4)),
                    BirthDate(DateObj(10000, 1, 1))}

setBirthdate(u, birthdate, t) ==
    IF birthdate.isDate
    THEN IF ~birthdate.date.valid THEN Threw(u)
         ELSE updateMetadata(u, "birthdate" :> Some(dateToYYYYMMDD(birthdate.date)), t)
    ELSE IF ~BirthdateRegexTest(birthdate.str) THEN Threw(u)
         ELSE updateMetadata(u, "birthdate" :> Some(birthdate.str), t)

setGender(u, gender, t) == updateMetadata(u, "gender" :> Some(gender), t)

setBio(u, bio, t) == updateMetadata(u, "bio" :> Some(bio), t)

setLanguage(u, language, t) == updateMetadata(u, "language" :> Some(language), t)

setTimezone(u, timezone, t) == updateMetadata(u, "timezone" :> Some(timezone), t)

\* { ...this._metadata.social_links }
SocialLinksOf(u) ==
    IF u.metadata["social_links"] = Undef THEN <<>>
    ELSE u.metadata["social_links"][1]

\* variant: the new map holds the given platform only
setSocialLink_DropsOthers(u, platform, url, t) ==
    updateMetadata(u, "social_links" :> Some(platform :> url), t)

setSocialLink(u, platform, url, t) ==
    LET old == SocialLinksOf(u)
        socialLinks == [p \in (DOMAIN old) \cup {platform} |->
                           IF p = platform THEN url ELSE old[p]]
    IN updateMetadata(u, "social_links" :> Some(socialLinks), t)

removeSocialLink(u, platform, t) ==
    IF u.metadata["social_links"] = Undef THEN Returned(u)
    ELSE
      LET old == SocialLinksOf(u)
          socialLinks == [p \in (DOMAIN old) \ {platform} |-> old[p]]
      IN updateMetadata(u, "social_links" :> Some(socialLinks), t)

(***************************************************************************)
(* Verification methods                                                    *)
(***************************************************************************)
\* this._metadata.verification || { all three false }
currentVerification(u) ==
    IF u.metadata["verification"] = Undef
    THEN VerificationRec(FALSE, FALSE, FALSE)
    ELSE u.metadata["verification"][1]

verifyEmail(u, t) ==
    updateMetadata(u, "verification" :>
        Some([currentVerification(u) EXCEPT !.email_verified = TRUE]), t)

unverifyEmail(u, t) ==
    updateMetadata(u, "verification" :>
        Some([currentVerification(u) EXCEPT !.email_verified = FALSE]), t)

\* starts from the all-false record instead of the stored one
verifyPhone_Resets(u, t) ==
    updateMetadata(u, "verification" :>
        Some([VerificationRec(FALSE, FALSE, FALSE) EXCEPT !.phone_verified = TRUE]), t)

verifyPhone(u, t) ==
    updateMetadata(u, "verification" :>
        Some([currentVerification(u) EXCEPT !.phone_verified = TRUE]), t)

unverifyPhone(u, t) ==
    updateMetadata(u, "verification" :>
        Some([currentVerification(u) EXCEPT !.phone_verified = FALSE]), t)

verifyIdentity(u, t) ==
    updateMetadata(u, "verification" :>
        Some([currentVerification(u) EXCEPT !.identity_verified = TRUE]), t)

unverifyIdentity(u, t) ==
    updateMetadata(u, "verification" :>
        Some([currentVerification(u) EXCEPT !.identity_verified = FALSE]), t)

(***************************************************************************)
(* Settings and restriction methods                                        *)
(***************************************************************************)
\* this._settings[key] = value
setSetting(u, key, value, t) ==
    Returned(updateTimestamp([u EXCEPT !.settings[key] = value], t))

\* a member of updates.system that is undefined leaves the stored member
updateSettings_KeepsExpiry(u, updates, t) ==
    LET oldSys == IF u.settings["system"] = Undef
                  THEN [k \in SystemKeys |-> Undef]
                  ELSE u.settings["system"][1]
        updSys == IF "system" \in DOMAIN updates /\ updates["system"] # Undef
                  THEN updates["system"][1]
                  ELSE <<>>
        system == [k \in SystemKeys |->
                      IF k \in DOMAIN updSys /\ updSys[k] # Undef
                      THEN updSys[k] ELSE oldSys[k]]
    IN Returned(updateTimestamp(
         [u EXCEPT !.settings =
             [k \in SettingKeys |->
                 IF k = "system" THEN Some(system)
                 ELSE IF k \in DOMAIN updates THEN updates[k] ELSE @[k]]],
         t))

\* system is updates.system alone, the stored members are not spread in
updateSettings_ReplacesSystem(u, updates, t) ==
    LET updSys == IF "system" \in DOMAIN updates /\ updates["system"] # Undef
                  THEN updates["system"][1]
                  ELSE <<>>
        system == [k \in SystemKeys |->
                      IF k \in DOMAIN updSys THEN updSys[k] ELSE Undef]
    IN Returned(updateTimestamp(
         [u EXCEPT !.settings =
             [k \in SettingKeys |->
                 IF k = "system" THEN Some(system)
                 ELSE IF k \in DOMAIN updates THEN updates[k] ELSE @[k]]],
         t))

\* updates: the keys given, "system" mapped to the system keys given
updateSettings(u, updates, t) ==
    LET oldSys == IF u.settings["system"] = Undef
                  THEN [k \in SystemKeys |-> Undef]
                  ELSE u.settings["system"][1]
        updSys == IF "system" \in DOMAIN updates /\ updates["system"] # Undef
                  THEN updates["system"][1]
                  ELSE <<>>
        system == [k \in SystemKeys |->
                      IF k \in DOMAIN updSys THEN updSys[k] ELSE oldSys[k]]
    IN Returned(updateTimestamp(
         [u EXCEPT !.settings =
             [k \in SettingKeys |->
                 IF k = "system" THEN Some(system)
                 ELSE IF k \in DOMAIN updates THEN updates[k] ELSE @[k]]],
         t))

enableNotifications(u, t) == updateSettings(u, "notifications" :> Some(TRUE), t)

disableNotifications(u, t) == updateSettings(u, "notifications" :> Some(FALSE), t)

\* until: an optional Date
restrict(u, until, t) ==
    updateSettings(u, "system" :> Some(SystemRec(Some(TRUE), until)), t)

unrestrict(u, t) ==
    updateSettings(u, "system" :> Some(SystemRec(Some(FALSE), Undef)), t)

\* new Date() < v: a Date compares by its instant, a string compares as NaN
DateBefore(t, v) == v.typ = "Date" /\ t < v.t

\* this._settings.system.isRestricted with no system record: a TypeError
isCurrentlyRestrictedThrows(u) == u.settings["system"] = Undef

\* t: the instant new Date() reads; the value of a call that returns
isCurrentlyRestricted(u, t) ==
    LET system == u.settings["system"][1] IN
    IF isCurrentlyRestrictedThrows(u) THEN FALSE
    ELSE IF system["isRestricted"] \in {Undef, Some(FALSE)} THEN FALSE
    ELSE IF system["restrictedUntil"] = Undef THEN TRUE
    ELSE DateBefore(t, system["restrictedUntil"][1])

(***************************************************************************)
(* Serializers                                                             *)
(***************************************************************************)
\* the structure toJSON returns: the copies of metadata and settings hold
\* the members of the entity's records, Date objects included
toJSON(u) ==
    [id |-> JStr(u.id),
     email |-> JStr(u.email),
     displayName |-> JStr(u.displayName),
     hash |-> JStr(u.hash),
     metadata |-> Some(u.metadata),
     settings |-> Some(u.settings),
     createdAt |-> Some(toISOString(u.createdAt)),
     lastUpdate |-> Some(toISOString(u.lastUpdate))]

\* variant: the stored email is written as well
toPublicJSON_WithEmail(u) ==
    [id |-> u.id,
     displayName |-> u.displayName,
     picture |-> u.metadata["picture"],
     bio |-> u.metadata["bio"],
     createdAt |-> toISOString(u.createdAt),
     email |-> u.email]

\* picture and bio are members also when they are undefined
toPublicJSON(u) ==
    [id |-> u.id,
     displayName |-> u.displayName,
     picture |-> u.metadata["picture"],
     bio |-> u.metadata["bio"],
     createdAt |-> toISOString(u.createdAt)]

\* values of the object literal of toSupabaseJSON
JNull == [typ |-> "null", val |-> EmptyStr]

JNumber(n) == [typ |-> "number", val |-> n]

JObject(o) == [typ |-> "object", val |-> o]

\* an optional string as a member value
JOptStr(o) == IF o = Undef THEN JUndef ELSE JStr(o[1])

\* parts.join(" ")
RECURSIVE Join(_)
Join(parts) ==
    IF parts = <<>> THEN EmptyStr
    ELSE IF Len(parts) = 1 THEN parts[1]
    ELSE parts[1] \o <<" ">> \o Join(Tail(parts))

\* get fullName: null without a name, else the truthy parts joined
fullName(u) ==
    IF u.metadata["name"] = Undef THEN JNull
    ELSE LET name == u.metadata["name"][1]
             all == <<Some(name.first_name), name.middle_name,
                      Some(name.last_name), name.suffix>>
             parts == SelectSeq(all, TruthyStr)
         IN JStr(Join([i \in 1..Len(parts) |-> parts[i][1]]))

\* `${c}` of s[0]: the character, or the text "undefined" without one
FirstCharText(s) ==
    IF s = EmptyStr THEN <<"u","n","d","e","f","i","n","e","d">> ELSE <<s[1]>>

\* s?.[0]?.toUpperCase() || ""
InitialOf(s) == IF s = EmptyStr THEN EmptyStr ELSE ToUpper(<<s[1]>>)

\* get initials; ok is FALSE when it throws (this._displayName[0] undefined)
initials(u) ==
    IF u.metadata["name"] # Undef
    THEN LET name == u.metadata["name"][1]
             both == Trim(InitialOf(name.first_name) \o InitialOf(name.last_name))
         IN IF both # EmptyStr THEN [ok |-> TRUE, out |-> both]
            ELSE IF u.displayName = EmptyStr THEN [ok |-> FALSE, out |-> EmptyStr]
            ELSE [ok |-> TRUE, out |-> ToUpper(<<u.displayName[1]>>)]
    ELSE LET names == SplitOnSpace(u.displayName) IN
         IF Len(names) >= 2
         THEN [ok |-> TRUE,
               out |-> ToUpper(FirstCharText(names[1])
                                 \o FirstCharText(names[Len(names)]))]
         ELSE [ok |-> TRUE,
               out |-> ToUpper(SubSeq(u.displayName, 1,
                                      IF Len(u.displayName) < 2
                                      THEN Len(u.displayName) ELSE 2))]

\* the calendar day new Date() reads at instant t: one day for each instant
Today(t) == DateObj(2024, 6, 15 + t)

\* get age: null without a birthdate, else the full years up to today; a
\* birthdate that names no day has no year to count from (NaN)
age(u, t) ==
    IF ~TruthyStr(u.metadata["birthdate"]) THEN JNull
    ELSE LET s == u.metadata["birthdate"][1] IN
         IF ~YYYYMMDDToDateReturns(s) THEN JNumber(NaNTime)
         ELSE LET today == Today(t)
                  years == today.year - DigitsToNat(SubSeq(s, 1, 4))
                  monthDiff == today.month - DigitsToNat(SubSeq(s, 6, 7))
                  before == \/ monthDiff < 0
                            \/ /\ monthDiff = 0
                               /\ today.day < DigitsToNat(SubSeq(s, 9, 10))
              IN JNumber(IF before THEN years - 1 ELSE years)

\* Object.fromEntries(Object.entries(obj).filter(value !== undefined))
stripUndefined(obj) ==
    [k \in {key \in DOMAIN obj : obj[key].typ # "undefined"} |-> obj[k]]

SupabaseKeys == {"age", "name", "gender", "address", "picture", "birthdate",
                 "full_name", "bio", "first_name", "family_name",
                 "display_name"}

toSupabaseJSON(u, t) ==
    stripUndefined(
      [k \in SupabaseKeys |->
         CASE k = "age" -> age(u, t)
           [] k \in {"name", "full_name"} -> fullName(u)
           [] k = "address" -> IF u.metadata["address"] = Undef THEN JUndef
                               ELSE JObject(u.metadata["address"][1])
           [] k = "first_name" -> IF u.metadata["name"] = Undef THEN JUndef
                                  ELSE JStr(u.metadata["name"][1].first_name)
           [] k = "family_name" -> IF u.metadata["name"] = Undef THEN JUndef
                                   ELSE JStr(u.metadata["name"][1].last_name)
           [] k = "display_name" -> JStr(u.displayName)
           [] OTHER -> JOptStr(u.metadata[k])])

\* the fields counted by getProfileCompletionPercentage
CompletionFields == {"name", "picture", "phone", "gender", "birthdate",
                     "address", "bio"}

\* the filter: an object counts when it has a key, any other value when it
\* is truthy; the name and address records always have their keys
IsCompleted(u, field) ==
    IF field \in {"name", "address"} THEN u.metadata[field] # Undef
    ELSE TruthyStr(u.metadata[field])

\* Math.round(x / y * 100) for naturals x <= y
RoundPercent(x, y) == (200 * x + y) \div (2 * y)

\* variant: counts the five fields of hasCompleteProfile only
getProfileCompletionPercentage_FiveFields(u) ==
    RoundPercent(
        Cardinality({f \in CompletionFields \ {"picture", "bio"} :
                        IsCompleted(u, f)}),
        Cardinality(CompletionFields))

getProfileCompletionPercentage(u) ==
    RoundPercent(Cardinality({f \in CompletionFields : IsCompleted(u, f)}),
                 Cardinality(CompletionFields))

(***************************************************************************)
(* validate                                                                *)
(***************************************************************************)
\* the messages pushed, in the order of the checks; cond: the check fails
Finding(cond, message) == IF cond THEN <<message>> ELSE <<>>

ValidateFindings(u) ==
    Finding(u.id = EmptyStr, "ID is required")
    \o Finding(u.email = EmptyStr, "Email is required")
    \o Finding(u.displayName = EmptyStr, "Display name is required")
    \o Finding(u.hash = EmptyStr, "Hash is required")
    \* try { validateEmail } catch (e) { push }
    \o Finding(~validateEmail(u.email),
               "Invalid email format: Error: Invalid email format")
    \o Finding(u.createdAt = NaNTime, "Invalid createdAt date")
    \o Finding(u.lastUpdate = NaNTime, "Invalid lastUpdate date")
    \o Finding(TruthyStr(u.metadata["phone"])
                 /\ ~PhoneRegexTest(u.metadata["phone"][1]),
               "Invalid phone number format")
    \o Finding(TruthyStr(u.metadata["birthdate"])
                 /\ ~BirthdateRegexTest(u.metadata["birthdate"][1]),
               "Invalid birthdate format")

\* variant: returns at the first finding
validate_FailFast(u) ==
    LET errors == IF ValidateFindings(u) = <<>> THEN <<>>
                  ELSE <<Head(ValidateFindings(u))>>
    IN [ok |-> TRUE, user |-> u, isValid |-> errors = <<>>, errors |-> errors]

\* variant: rewrites an invalid lastUpdate before it reports
validate_Touch(u) ==
    LET u1 == IF u.lastUpdate = NaNTime THEN updateTimestamp(u, 0) ELSE u
    IN [ok |-> TRUE, user |-> u1, isValid |-> ValidateFindings(u) = <<>>,
        errors |-> ValidateFindings(u)]

\* ok: it returned; user: the entity after the call
validate(u) ==
    [ok |-> TRUE, user |-> u, isValid |-> ValidateFindings(u) = <<>>,
     errors |-> ValidateFindings(u)]

(***************************************************************************)
(* checkForHTMLTags and sanitizeInput of src/src/utils.ts                  *)
(***************************************************************************)
\* the module state before any helper has been called
NoUtil == [sanitizer |-> "available", lastIndex |-> 0, out |-> Undef]

\* internalSanitize(input, { ALLOWED_TAGS: [], ALLOWED_ATTR: [] }) of the
\* host library: the text without its tags
HostSanitize(s) == StripTags(s)

\* the catch branch of sanitizeInput
HardenedFallback(s) ==
    LET noScheme == ReplaceAll(s, {<<"j","a","v","a","s","c","r","i","p","t",":">>},
                               <<"[","r","e","m","o","v","e","d","]">>)
        noData == ReplaceAll(noScheme, {<<"d","a","t","a",":">>},
                             <<"[","r","e","m","o","v","e","d","]">>)
        hardened == ReplaceAll(noData,
                       { <<"o","n","l","o","a","d","=">>,
                         <<"o","n","e","r","r","o","r","=">>,
                         <<"o","n","c","l","i","c","k","=">> },
                       <<"p","r","e","v","e","n","t","e","d","=">>)
    IN Trim(StripTags(hardened))

\* input: a value with its typeof; u: the module state; throws: the host
\* sanitizer throws in this call
sanitizeInput(input, u, throws) ==
    IF input.typ # "string" \/ input.val = EmptyStr
    THEN [ok |-> TRUE, out |-> EmptyStr, lastIndex |-> u.lastIndex]
    ELSE IF u.sanitizer = "available"
    THEN [ok |-> TRUE,
          out |-> IF throws THEN HardenedFallback(input.val)
                  ELSE Trim(HostSanitize(input.val)),
          lastIndex |-> u.lastIndex]
    \* internalSanitize is null: the try block ends without a return
    ELSE [ok |-> TRUE, out |-> Trim(input.val), lastIndex |-> u.lastIndex]

\* DANGER_PATTERNS.some(test): the fourth pattern is tested when the first
\* three have failed, and it alone carries a lastIndex
checkForHTMLTags(input, u, throws) ==
    IF input.typ # "string" \/ input.val = EmptyStr
          \/ Trim(input.val) = EmptyStr
    THEN [ok |-> TRUE, out |-> FALSE, lastIndex |-> u.lastIndex]
    ELSE IF HasTagOpener(input.val) \/ HasEventHandler(input.val)
               \/ HasDangerScheme(input.val)
    THEN [ok |-> TRUE, out |-> TRUE, lastIndex |-> u.lastIndex]
    ELSE LET general == GlobalTest(input.val, u.lastIndex) IN
         IF general.found
         THEN [ok |-> TRUE, out |-> TRUE, lastIndex |-> general.lastIndex]
         ELSE [ok |-> TRUE,
               out |-> /\ u.sanitizer = "available"
                       /\ ~throws
                       /\ Trim(input.val) # Trim(HostSanitize(input.val)),
               lastIndex |-> general.lastIndex]

(***************************************************************************)
(* Payloads handed to fromJSON and fromSupabase                            *)
(***************************************************************************)
JSONPayload(id, email, displayName, hash, metadata, settings, createdAt, lastUpdate) ==
    [id |-> id, email |-> email, displayName |-> displayName, hash |-> hash,
     metadata |-> metadata, settings |-> settings,
     createdAt |-> createdAt, lastUpdate |-> lastUpdate]

MetaWith(verification, phone) ==
    [EmptyMetadata EXCEPT !["verification"] = verification, !["phone"] = phone]

JSONInputs ==
    { \* a payload written by toJSON of a fresh entity
      JSONPayload(JStr(IdU1), JStr(EmailA), JStr(NameAl), JStr(hashID(IdU1)),
                  Some(MetaWith(Some(VerificationRec(FALSE, FALSE, FALSE)), Undef)),
                  Some(DefaultSettings), Some(ISOString(0)), Some(ISOString(0))),
      \* verified channels, a phone number
      JSONPayload(JStr(IdU1), JStr(EmailA), JStr(NameAl), JStr(HashX),
                  Some(MetaWith(Some(VerificationRec(TRUE, TRUE, FALSE)), Some(PhoneA))),
                  Some(DefaultSettings), Some(ISOString(0)), Some(ISOString(1))),
      \* malformed email, blank display name, nothing else
      JSONPayload(JStr(IdU1), JStr(EmailNoDot), JStr(Blank), JStr(HashX),
                  Undef, Undef, Undef, Undef),
      \* markup in the display name, lastUpdate before createdAt
      JSONPayload(JStr(IdU1), JStr(EmailB), JStr(NameTag), JStr(HashX),
                  Some(EmptyMetadata), Some(DefaultSettings),
                  Some(ISOString(MaxTime)), Some(ISOString(0))),
      \* lastUpdate ahead of the clock
      JSONPayload(JStr(IdU1), JStr(EmailA), JStr(NameAl), JStr(HashX),
                  Some(EmptyMetadata), Some(DefaultSettings),
                  Some(ISOString(0)), Some(ISOString(MaxTime))),
      \* a settings record with no system entry
      JSONPayload(JStr(IdU1), JStr(EmailA), JStr(NameAl), JStr(HashX),
                  Some(EmptyMetadata),
                  Some([DefaultSettings EXCEPT !["system"] = Undef]),
                  Some(ISOString(0)), Some(ISOString(0))),
      \* parsed from a serialized entity restricted until MaxTime
      JSONPayload(JStr(IdU1), JStr(EmailA), JStr(NameAl), JStr(HashX),
                  Some(EmptyMetadata),
                  Some([DefaultSettings EXCEPT !["system"] =
                          Some(SystemRec(Some(TRUE),
                                         Some(ISOString(MaxTime))))]),
                  Some(ISOString(0)), Some(ISOString(0))),
      \* rejected payloads
      JSONPayload(JUndef, JStr(EmailA), JStr(NameAl), JStr(HashX),
                  Undef, Undef, Undef, Undef),
      JSONPayload(JStr(IdU1), JStr(EmptyStr), JStr(NameAl), JStr(HashX),
                  Undef, Undef, Undef, Undef),
      JSONPayload(JStr(IdU1), JStr(EmailA), JUndef, JStr(HashX),
                  Undef, Undef, Undef, Undef),
      JSONPayload(JStr(IdU1), JStr(EmailA), JStr(NameAl), JNum,
                  Undef, Undef, Undef, Undef),
      \* two invalid fields
      JSONPayload(JStr(IdU1), JNum, JStr(NameAl), JStr(EmptyStr),
                  Undef, Undef, Undef, Undef) }

SupabaseUser(id, email, emailAt, phoneAt, userMeta, appMeta, created, updated) ==
    [id |-> id, email |-> email,
     email_confirmed_at |-> emailAt,
     phone_confirmed_at |-> phoneAt,
     user_metadata |-> userMeta, app_metadata |-> appMeta,
     created_at |-> created, updated_at |-> updated]

NoUserMeta == [k \in UserMetaKeys |-> Undef]

NoAppMeta == [k \in AppMetaKeys |-> Undef]

SupabaseInputs ==
    { \* confirmed channels, no metadata
      SupabaseUser(Some(IdU1), Some(EmailA), Some(0), Some(0), Undef, Undef,
                   0, Undef),
      \* provider metadata and settings
      SupabaseUser(Some(IdU1), Some(EmailB), Some(0), Undef,
                   Some([NoUserMeta EXCEPT !["display_name"] = Some(Blank),
                                           !["first_name"] = Some(<<"A","l">>),
                                           !["phone"] = Some(PhoneA),
                                           !["bio"] = Some(BioMarkup)]),
                   Some([NoAppMeta EXCEPT !["notifications"] = Some(FALSE),
                                          !["is_restricted"] = Some(TRUE),
                                          !["restricted_until"] = Some(ISOString(1)),
                                          !["theme"] = Some(<<"d">>)]),
                   0, Some(1)),
      \* email without a local part, updated_at before created_at
      SupabaseUser(Some(IdU1), Some(EmailNoLocal), Undef, Undef,
                   Some(NoUserMeta), Some(NoAppMeta), MaxTime, Some(0)),
      \* app_metadata with a key named system (an object without members)
      SupabaseUser(Some(IdU1), Some(EmailA), Undef, Some(0), Undef,
                   Some([NoAppMeta EXCEPT
                           !["system"] = Some(SystemRec(Undef, Undef))]),
                   0, Undef),
      \* rejected records
      SupabaseUser(Some(EmptyStr), Some(EmailA), Undef, Undef, Undef, Undef,
                   0, Undef),
      SupabaseUser(Some(IdU1), Undef, Undef, Undef, Undef, Undef, 0, Undef) }

(***************************************************************************)
(* State machine                                                           *)
(*                                                                         *)
(* user  : the entity (NoUser until a factory has returned one)            *)
(* now   : the clock read by new Date()                                    *)
(* pc    : "new" before construction, "live" after                         *)
(* last  : the last call: its name, whether it returned, its argument (for *)
(*         a factory the whole input), and                                 *)
(*         one fact of the state before the call: for a call that changes  *)
(*         the email or the phone the channel's verification flag, for     *)
(*         restrict whether an expiry was stored, for unrestrict whether   *)
(*         the entity was restricted, for the verification methods whether *)
(*         the verification record was absent; for the social-link         *)
(*         methods the platform they were called with                      *)
(* util  : the module state of utils.ts: whether internalSanitize is a     *)
(*         function, the lastIndex of the /g pattern of DANGER_PATTERNS,   *)
(*         and the value the last helper call returned                     *)
(* peer  : a second instance (NoUser while there is none)                  *)
(* shared: the object-valued fields under which user and peer hold the     *)
(*         same object                                                     *)
(* held  : the value a getter or toJSON handed to the caller, and the      *)
(*         object-valued fields under which it holds an object of user     *)
(* focus : the group of methods the behaviour exercises; it only bounds    *)
(*         the interleavings explored                                      *)
(***************************************************************************)
\* the caller holds no returned value
NoHeld == [via |-> "none", value |-> Undef, aliased |-> {}]

Focuses == {"identity", "contact", "profile", "text", "links", "settings",
            "audit"}

\* the metadata keys the generic setMetadata/updateMetadata are driven with
FocusKeys(f) ==
    CASE f = "contact" -> {"phone", "verification"}
      [] f = "text" -> {"bio", "language"}
      [] OTHER -> {}

Call(op, ok, arg, was) == [op |-> op, ok |-> ok, arg |-> arg, was |-> was]

Init ==
    /\ user = NoUser
    /\ now = 0
    /\ pc = "new"
    /\ last = Call("none", TRUE, EmptyStr, FALSE)
    /\ util = NoUtil
    /\ peer = NoUser
    /\ shared = {}
    /\ held = NoHeld
    /\ focus \in Focuses

\* time passes between two calls
Tick ==
    /\ now < MaxTime
    /\ now' = now + 1
    /\ last' = Call("tick", TRUE, EmptyStr, FALSE)
    /\ UNCHANGED <<user, pc, focus, util, peer, shared, held>>

\* a factory call: r is its outcome, t the clock when it returns
Construct(op, arg, r, t) ==
    /\ pc = "new"
    /\ user' = r.user
    /\ pc' = IF r.ok THEN "live" ELSE "new"
    /\ now' = t
    /\ last' = Call(op, r.ok, arg, FALSE)
    /\ UNCHANGED <<focus, util, peer, shared, held>>

Initialize ==
    \E email \in EmailInputs, displayName \in DisplayNameInputs,
       id \in IdInputs, genID \in GeneratedIDs,
       t2 \in {now, now + 1} \cap (0..MaxTime) :
        Construct("initialize",
                  [email |-> email, displayName |-> displayName, id |-> id,
                   genID |-> genID],
                  initialize(email, displayName, id, genID, now, t2), t2)

FromJSON ==
    \E data \in JSONInputs :
        Construct("fromJSON", data, fromJSON(data, now), now)

FromSupabase ==
    \E su \in SupabaseInputs :
        Construct("fromSupabase", su, fromSupabase(su), now)

\* a method call on the live entity
Apply(group, op, arg, r, was) ==
    /\ pc = "live"
    /\ focus = group
    /\ user' = r.user
    /\ last' = Call(op, r.ok, arg, was)
    /\ UNCHANGED <<now, pc, focus, util, peer, shared, held>>

SetEmail ==
    \E value \in EmailInputs :
        Apply("identity", "setEmail", value, setEmail(user, value, now),
              isEmailVerified(user))

SetDisplayName ==
    \E value \in DisplayNameInputs :
        Apply("identity", "setDisplayName", value,
              setDisplayName(user, value, now), FALSE)

SetHash ==
    \E value \in HashInputs :
        Apply("identity", "setHash", value, setHash(user, value, now), FALSE)

VerifyEmail ==
    Apply("identity", "verifyEmail", EmptyStr, verifyEmail(user, now),
          user.metadata["verification"] = Undef)

UnverifyEmail ==
    Apply("identity", "unverifyEmail", EmptyStr, unverifyEmail(user, now),
          user.metadata["verification"] = Undef)

\* the updates the generic metadata methods are called with
MetaUpdates ==
    { "phone" :> Some(PhoneA),
      "phone" :> Some(PhoneB),
      "verification" :> Undef,
      "verification" :> Some(VerificationRec(TRUE, TRUE, TRUE)),
      "bio" :> Some(BioPlain),
      "bio" :> Some(BioMarkup),
      ("bio" :> Some(BioScript)) @@ ("language" :> Some(LangTag)) }

\* the string written by a generic update (its phone or bio entry)
StringOf(updates) ==
    IF "phone" \in DOMAIN updates THEN updates["phone"][1]
    ELSE IF "bio" \in DOMAIN updates THEN updates["bio"][1]
    ELSE EmptyStr

SetMetadata ==
    \E updates \in MetaUpdates : \E key \in DOMAIN updates :
        /\ DOMAIN updates = {key}
        /\ key \in FocusKeys(focus)
        /\ Apply(focus, "setMetadata:" \o key, StringOf(updates),
                 setMetadata(user, key, updates[key], now),
                 isPhoneVerified(user))

UpdateMetadata ==
    \E updates \in MetaUpdates :
        /\ DOMAIN updates \subseteq FocusKeys(focus)
        /\ Apply(focus,
                 IF "phone" \in DOMAIN updates THEN "updateMetadata:phone"
                 ELSE IF "bio" \in DOMAIN updates THEN "updateMetadata:bio"
                 ELSE "updateMetadata:verification",
                 StringOf(updates),
                 updateMetadata(user, updates, now), isPhoneVerified(user))

SetPhone ==
    \E phone \in PhoneInputs :
        Apply("contact", "setPhone", phone, setPhone(user, phone, now),
              isPhoneVerified(user))

VerifyPhone ==
    Apply("contact", "verifyPhone", EmptyStr, verifyPhone(user, now),
          user.metadata["verification"] = Undef)

UnverifyPhone ==
    Apply("contact", "unverifyPhone", EmptyStr, unverifyPhone(user, now),
          user.metadata["verification"] = Undef)

VerifyIdentity ==
    Apply("contact", "verifyIdentity", EmptyStr, verifyIdentity(user, now),
          user.metadata["verification"] = Undef)

UnverifyIdentity ==
    Apply("contact", "unverifyIdentity", EmptyStr, unverifyIdentity(user, now),
          user.metadata["verification"] = Undef)

SetFullNameObject ==
    \E name \in FullNameInputs :
        Apply("profile", "setFullNameObject", name.first_name,
              setFullNameObject(user, name, now), FALSE)

SetName ==
    \E name \in FullNameInputs :
        Apply("profile", "setName", name.first_name, setName(user, name, now),
              FALSE)

SetBirthdate ==
    \E birthdate \in BirthdateInputs :
        Apply("profile", "setBirthdate", birthdate,
              setBirthdate(user, birthdate, now), FALSE)

SetGender ==
    \E gender \in GenderInputs :
        Apply("profile", "setGender", gender, setGender(user, gender, now), FALSE)

SetAddress ==
    \E address \in AddressInputs :
        Apply("text", "setAddress", address.city,
              setAddress(user, address, now), FALSE)

SetBio ==
    \E bio \in BioInputs :
        Apply("text", "setBio", bio, setBio(user, bio, now), FALSE)

SetLanguage ==
    \E language \in LanguageInputs :
        Apply("text", "setLanguage", language,
              setLanguage(user, language, now), FALSE)

SetTimezone ==
    \E timezone \in TimezoneInputs :
        Apply("text", "setTimezone", timezone,
              setTimezone(user, timezone, now), FALSE)

SetPicture ==
    \E url \in UrlInputs :
        Apply("links", "setPicture", url, setPicture(user, url, now), FALSE)

SetSocialLink ==
    \E platform \in Platforms, url \in UrlInputs :
        Apply("links", "setSocialLink", url,
              setSocialLink(user, platform, url, now), platform)

RemoveSocialLink ==
    \E platform \in Platforms :
        Apply("links", "removeSocialLink", EmptyStr,
              removeSocialLink(user, platform, now), platform)

SettingInputs ==
    { <<"notifications", Some(FALSE)>>, <<"theme", Some(<<"d">>)>>,
      <<"theme", Undef>>, <<"system", Undef>> }

SetSetting ==
    \E kv \in SettingInputs :
        Apply("settings", "setSetting", EmptyStr,
              setSetting(user, kv[1], kv[2], now), FALSE)

SettingsUpdates ==
    { "theme" :> Some(<<"l">>),
      ("notifications" :> Some(FALSE))
          @@ ("system" :> Some("isRestricted" :> Some(TRUE))) }

UpdateSettings ==
    \E updates \in SettingsUpdates :
        Apply("settings", "updateSettings", EmptyStr,
              updateSettings(user, updates, now), FALSE)

EnableNotifications ==
    Apply("settings", "enableNotifications", EmptyStr,
          enableNotifications(user, now), FALSE)

DisableNotifications ==
    Apply("settings", "disableNotifications", EmptyStr,
          disableNotifications(user, now), FALSE)

Restrict ==
    \E until \in {Undef} \cup {Some(DateValue(t)) : t \in 0..MaxTime} :
        Apply("settings", "restrict", until, restrict(user, until, now),
              /\ user.settings["system"] # Undef
              /\ user.settings["system"][1]["restrictedUntil"] # Undef)

Unrestrict ==
    Apply("settings", "unrestrict", EmptyStr, unrestrict(user, now),
          isCurrentlyRestricted(user, now))

\* getters, predicates and serializers: none assigns a field of the entity
ReadOnlyOps == {"get", "toJSON", "toPublicJSON", "toSupabaseJSON",
                "clone", "equals", "isCurrentlyRestricted", "initials",
                "hasCompleteProfile", "getProfileCompletionPercentage"}

ReadOnly ==
    \E op \in ReadOnlyOps :
        Apply("audit", op, EmptyStr,
              IF \/ op = "isCurrentlyRestricted"
                       /\ isCurrentlyRestrictedThrows(user)
                 \/ op = "initials" /\ ~initials(user).ok
              THEN Threw(user) ELSE Returned(user),
              FALSE)

Validate ==
    Apply("audit", "validate", EmptyStr, validate(user), FALSE)

Next ==
    \/ Tick
    \/ Initialize
    \/ FromJSON
    \/ FromSupabase
    \/ Validate
    \/ SetEmail
    \/ SetDisplayName
    \/ SetHash
    \/ VerifyEmail
    \/ UnverifyEmail
    \/ SetMetadata
    \/ UpdateMetadata
    \/ SetPhone
    \/ VerifyPhone
    \/ UnverifyPhone
    \/ VerifyIdentity
    \/ UnverifyIdentity
    \/ SetFullNameObject
    \/ SetName
    \/ SetBirthdate
    \/ SetGender
    \/ SetAddress
    \/ SetBio
    \/ SetLanguage
    \/ SetTimezone
    \/ SetPicture
    \/ SetSocialLink
    \/ RemoveSocialLink
    \/ SetSetting
    \/ UpdateSettings
    \/ EnableNotifications
    \/ DisableNotifications
    \/ Restrict
    \/ Unrestrict
    \/ ReadOnly

Spec == Init /\ [][Next]_vars

(***************************************************************************)
(* validate() over entities built by the public constructor                *)
(***************************************************************************)
ConstructorInputs ==
    { [id |-> id, email |-> email, displayName |-> displayName, hash |-> hash,
       metadata |-> [EmptyMetadata EXCEPT !["phone"] = phone,
                                          !["birthdate"] = birthdate],
       settings |-> DefaultSettings,
       createdAt |-> createdAt, lastUpdate |-> lastUpdate] :
        id \in {EmptyStr, IdU1},
        email \in {EmptyStr, EmailA, EmailNoDot},
        displayName \in {EmptyStr, NameAl},
        hash \in {EmptyStr, HashX},
        phone \in {Undef, Some(PhoneA), Some(PhoneLeadingZero)},
        birthdate \in {Undef, Some(DateStrA), Some(DateStrShort)},
        createdAt \in {0, NaNTime},
        lastUpdate \in {0, NaNTime} }

InitValidate ==
    /\ \E data \in ConstructorInputs : user = MajikUser(data)
    /\ now = 0
    /\ pc = "live"
    /\ last = Call("new", TRUE, EmptyStr, FALSE)
    /\ focus = "audit"
    /\ util = NoUtil
    /\ peer = NoUser
    /\ shared = {}
    /\ held = NoHeld

NextValidate == Validate

SpecValidate == InitValidate /\ [][NextValidate]_vars

(***************************************************************************)
(* The profile setters on an entity fresh from initialize                  *)
(***************************************************************************)
\* the setter of each counted field, called with a non-empty value
FillField(u, field, t) ==
    CASE field = "name" -> setName(u, NameGood, t)
      [] field = "picture" -> setPicture(u, UrlHttps, t)
      [] field = "phone" -> setPhone(u, PhoneA, t)
      [] field = "gender" -> setGender(u, <<"m">>, t)
      [] field = "birthdate" -> setBirthdate(u, BirthStr(DateStrA), t)
      [] field = "address" -> setAddress(u, AddressRec(<<"Q","C">>), t)
      [] field = "bio" -> setBio(u, BioPlain, t)

\* last.arg: the field; last.was: the field was counted before the call
FillProfile ==
    \E field \in CompletionFields :
        Apply("completion", "fill", field, FillField(user, field, now),
              IsCompleted(user, field))

InitProfile ==
    /\ \E genID \in GeneratedIDs :
          /\ user = initialize(EmailA, NameAl, Undef, genID, 0, 0).user
          /\ last = Call("initialize", TRUE,
                         [email |-> EmailA, displayName |-> NameAl,
                          id |-> Undef, genID |-> genID], FALSE)
    /\ now = 0
    /\ pc = "live"
    /\ focus = "completion"
    /\ util = NoUtil
    /\ peer = NoUser
    /\ shared = {}
    /\ held = NoHeld

NextProfile == FillProfile \/ Tick

SpecProfile == InitProfile /\ [][NextProfile]_vars

(***************************************************************************)
(* The helpers of utils.ts called in any order within one module instance  *)
(***************************************************************************)
\* "<b>x"
TextTag == <<"<","b",">","x">>

\* "java<b>script:x"
TextSplitScheme ==
    <<"j","a","v","a","<","b",">","s","c","r","i","p","t",":","x">>

\* "on<i>click=x"
TextSplitHandler == <<"o","n","<","i",">","c","l","i","c","k","=","x">>

\* "&lt;"
TextEntity == <<"&","l","t",";">>

\* "<script"
TextOpener == <<"<","s","c","r","i","p","t">>

UtilInputs ==
    { JStr(TextTag), JStr(TextSplitScheme), JStr(TextSplitHandler),
      JStr(TextEntity), JStr(TextOpener), JStr(UrlScript), JStr(NameHandler),
      JStr(NameAl), JStr(Blank), JStr(EmptyStr), JNum, JUndef }

\* whether the host sanitizer can throw in a call
MayThrow == IF util.sanitizer = "available" THEN BOOLEAN ELSE {FALSE}

\* last.arg: the input; last.was: the host sanitizer threw
HelperCall(op, input, r, throws) ==
    /\ util' = [util EXCEPT !.lastIndex = r.lastIndex, !.out = Some(r.out)]
    /\ last' = Call(op, r.ok, input, throws)
    /\ UNCHANGED <<user, now, pc, focus, peer, shared, held>>

SanitizeInput ==
    \E input \in UtilInputs, throws \in MayThrow :
        HelperCall("sanitizeInput", input, sanitizeInput(input, util, throws),
                   throws)

CheckForHTMLTags ==
    \E input \in UtilInputs, throws \in MayThrow :
        HelperCall("checkForHTMLTags", input,
                   checkForHTMLTags(input, util, throws), throws)

\* getSafeSanitizer() has run at import: internalSanitize is the host
\* function or null
InitUtils ==
    /\ user = NoUser
    /\ now = 0
    /\ pc = "new"
    /\ last = Call("none", TRUE, EmptyStr, FALSE)
    /\ focus = "utils"
    /\ peer = NoUser
    /\ shared = {}
    /\ held = NoHeld
    /\ \E sanitizer \in {"available", "unavailable"} :
          util = [NoUtil EXCEPT !.sanitizer = sanitizer]

NextUtils == SanitizeInput \/ CheckForHTMLTags

SpecUtils == InitUtils /\ [][NextUtils]_vars

(***************************************************************************)
(* Two instances: clone(), and fromJSON called twice on one payload object *)
(***************************************************************************)
\* the entries of metadata and settings whose values are objects
ObjectFields == {"verification", "name", "address", "social_links", "system"}

\* the object stored under an object-valued field
ObjectOf(u, f) ==
    IF f = "system" THEN u.settings["system"] ELSE u.metadata[f]

WithObject(u, f, obj) ==
    IF f = "system" THEN [u EXCEPT !.settings["system"] = obj]
    ELSE [u EXCEPT !.metadata[f] = obj]

\* { ...data.metadata } and { ...data.settings } copy the top level only:
\* every object stored under a field is the object of the source
SpreadShares(u) == {f \in ObjectFields : ObjectOf(u, f) # Undef}

clone(u) ==
    MajikUser([id |-> u.id,
               email |-> u.email,
               displayName |-> u.displayName,
               hash |-> u.hash,
               metadata |-> u.metadata,
               settings |-> u.settings,
               createdAt |-> u.createdAt,
               lastUpdate |-> u.lastUpdate])

\* a write into an object held by both instances shows in both
WriteThrough(a, b, fields) ==
    [a EXCEPT
       !.metadata = [k \in MetaKeys |->
                        IF k \in fields THEN b.metadata[k] ELSE @[k]],
       !.settings = [k \in SettingKeys |->
                        IF k \in fields THEN b.settings[k] ELSE @[k]]]

\* b = a.clone()
Clone ==
    /\ pc = "live"
    /\ focus = "share"
    /\ peer = NoUser
    /\ peer' = clone(user)
    /\ shared' = SpreadShares(user)
    /\ last' = Call("clone", TRUE, EmptyStr, FALSE)
    /\ UNCHANGED <<user, now, pc, focus, util, held>>

\* a = fromJSON(data); b = fromJSON(data), data an object: the objects of
\* data.metadata and data.settings go into both (the defaults used for a
\* missing metadata or settings are built anew in each call)
FromJSONTwice ==
    \E data \in JSONInputs :
        LET r == fromJSON(data, now) IN
        /\ pc = "new"
        /\ focus = "share"
        /\ ~IsString(data)
        /\ r.ok
        /\ user' = r.user
        /\ peer' = fromJSON(data, now).user
        /\ shared' = {f \in SpreadShares(r.user) :
                        IF f = "system" THEN data.settings # Undef
                        ELSE data.metadata # Undef}
        /\ pc' = "live"
        /\ last' = Call("fromJSON", TRUE, data, FALSE)
        /\ UNCHANGED <<now, focus, util, held>>

\* a method call on the second instance: written are the objects it
\* assigns into in place, replaced the fields it stores a new object under
PeerCall(op, arg, r, written, replaced) ==
    /\ pc = "live"
    /\ focus = "share"
    /\ peer # NoUser
    /\ peer' = r.user
    /\ user' = IF r.ok THEN WriteThrough(user, r.user, written \cap shared)
               ELSE user
    /\ shared' = IF r.ok THEN shared \ replaced ELSE shared
    /\ last' = Call(op, r.ok, arg, FALSE)
    /\ UNCHANGED <<now, pc, focus, util, held>>

\* this._metadata.verification.email_verified = false
PeerSetEmail ==
    \E value \in EmailInputs :
        PeerCall("peer.setEmail", value, setEmail(peer, value, now),
                 {"verification"}, {})

\* this._metadata.verification.phone_verified = false
PeerSetPhone ==
    \E phone \in PhoneInputs :
        PeerCall("peer.setPhone", phone, setPhone(peer, phone, now),
                 {"verification"}, {})

VerificationCall(op, u, t) ==
    CASE op = "verifyEmail" -> verifyEmail(u, t)
      [] op = "unverifyEmail" -> unverifyEmail(u, t)
      [] op = "verifyPhone" -> verifyPhone(u, t)
      [] op = "unverifyPhone" -> unverifyPhone(u, t)
      [] op = "verifyIdentity" -> verifyIdentity(u, t)
      [] op = "unverifyIdentity" -> unverifyIdentity(u, t)

\* verification: { ...currentVerification, <flag> }: a new record
PeerVerification ==
    \E op \in {"verifyEmail", "unverifyEmail", "verifyPhone", "unverifyPhone",
               "verifyIdentity", "unverifyIdentity"} :
        PeerCall("peer." \o op, EmptyStr, VerificationCall(op, peer, now),
                 {}, {"verification"})

PeerSetMetadata ==
    \E updates \in MetaUpdates : \E key \in DOMAIN updates :
        /\ DOMAIN updates = {key}
        /\ key \in FocusKeys("contact")
        /\ PeerCall("peer.setMetadata", StringOf(updates),
                    setMetadata(peer, key, updates[key], now), {}, {key})

\* system: { ...this._settings.system, ...updates.system }: a new record
PeerUpdateSettings ==
    \E updates \in SettingsUpdates :
        PeerCall("peer.updateSettings", EmptyStr,
                 updateSettings(peer, updates, now), {}, {"system"})

PeerRestrict ==
    \E until \in {Undef} \cup {Some(DateValue(t)) : t \in 0..MaxTime} :
        PeerCall("peer.restrict", until, restrict(peer, until, now),
                 {}, {"system"})

InitShare ==
    /\ user = NoUser
    /\ now = 0
    /\ pc = "new"
    /\ last = Call("none", TRUE, EmptyStr, FALSE)
    /\ focus = "share"
    /\ util = NoUtil
    /\ peer = NoUser
    /\ shared = {}
    /\ held = NoHeld

NextShare ==
    \/ FromJSON
    \/ Clone
    \/ FromJSONTwice
    \/ PeerSetEmail
    \/ PeerSetPhone
    \/ PeerVerification
    \/ PeerSetMetadata
    \/ PeerUpdateSettings
    \/ PeerRestrict

SpecShare == InitShare /\ [][NextShare]_vars

(***************************************************************************)
(* The values the getters and toJSON hand to the caller, and what the      *)
(* caller writes into them                                                 *)
(***************************************************************************)
Getters == {"metadata", "settings", "fullNameObject", "lastUpdate", "toJSON"}

\* the value the call returns
GetterValue(u, via) ==
    CASE via = "metadata" -> u.metadata
      [] via = "settings" -> u.settings
      [] via = "fullNameObject" ->
            IF u.metadata["name"] = Undef THEN JNull ELSE u.metadata["name"][1]
      [] via = "lastUpdate" -> DateValue(NewDate(DateValue(u.lastUpdate)))
      [] via = "toJSON" -> toJSON(u)

\* the fields under which the returned value holds an object of the entity:
\* { ...this._metadata } and { ...this._settings } copy the top level only,
\* fullNameObject returns this._metadata.name itself, lastUpdate a new Date
GetterAliases(u, via) ==
    CASE via = "metadata" -> SpreadShares(u) \ {"system"}
      [] via = "settings" -> SpreadShares(u) \cap {"system"}
      [] via = "fullNameObject" -> SpreadShares(u) \cap {"name"}
      [] via = "lastUpdate" -> {}
      [] via = "toJSON" -> SpreadShares(u)

\* the objects the caller reaches through the value it holds
Reachable(h) ==
    CASE h.via = "metadata" ->
            {f \in ObjectFields \ {"system"} : h.value[f] # Undef}
      [] h.via = "settings" ->
            {f \in {"system"} : h.value["system"] # Undef}
      [] h.via = "fullNameObject" -> {f \in {"name"} : h.value # JNull}
      [] h.via = "toJSON" ->
            {f \in ObjectFields :
                IF f = "system" THEN h.value.settings[1]["system"] # Undef
                ELSE h.value.metadata[1][f] # Undef}
      [] OTHER -> {}

\* the held value after the caller has written obj over the object under f
HeldWith(h, f, obj) ==
    CASE h.via = "metadata" -> [h.value EXCEPT ![f] = Some(obj)]
      [] h.via = "settings" -> [h.value EXCEPT !["system"] = Some(obj)]
      [] h.via = "fullNameObject" -> obj
      [] h.via = "toJSON" ->
            IF f = "system"
            THEN [h.value EXCEPT
                    !.settings = Some([@[1] EXCEPT !["system"] = Some(obj)])]
            ELSE [h.value EXCEPT
                    !.metadata = Some([@[1] EXCEPT ![f] = Some(obj)])]

\* what the caller leaves in an object it writes into
ObjectWrites(f) ==
    CASE f = "verification" -> VerificationRec(TRUE, TRUE, TRUE)
      [] f = "name" -> NameBlankFirst
      [] f = "address" -> AddressRec(<<"<","p",">","Q","C">>)
      [] f = "social_links" -> "twitter" :> UrlScript
      [] f = "system" -> SystemRec(Some(FALSE), Undef)

\* the held value after the caller has assigned one of its own properties
HeldAssigned(h) ==
    CASE h.via = "metadata" ->
            [h.value EXCEPT !["phone"] = Some(PhoneLeadingZero)]
      [] h.via = "settings" -> [h.value EXCEPT !["theme"] = Some(<<"l">>)]
      [] h.via = "lastUpdate" -> DateValue(NaNTime)
      [] h.via = "toJSON" -> [h.value EXCEPT !.email = JStr(EmailNoDot)]

\* const v = user.<getter>, or const v = user.toJSON()
Get ==
    \E via \in Getters :
        /\ pc = "live"
        /\ focus = "getters"
        /\ held' = [via |-> via, value |-> GetterValue(user, via),
                    aliased |-> GetterAliases(user, via)]
        /\ last' = Call("get", TRUE, via, FALSE)
        /\ UNCHANGED <<user, now, pc, focus, util, peer, shared>>

\* the caller writes into an object nested in v (for fullNameObject, v)
CallerWrite ==
    \E f \in Reachable(held) :
        /\ focus = "getters"
        /\ held' = [held EXCEPT
                      !.value = HeldWith(held, f, ObjectWrites(f))]
        /\ user' = IF f \in held.aliased
                   THEN WithObject(user, f, Some(ObjectWrites(f)))
                   ELSE user
        /\ last' = Call("write", TRUE, f, FALSE)
        /\ UNCHANGED <<now, pc, focus, util, peer, shared>>

\* the caller assigns a property of v (for lastUpdate, calls setTime)
CallerAssign ==
    /\ focus = "getters"
    /\ held.via \in Getters \ {"fullNameObject"}
    /\ held' = [held EXCEPT !.value = HeldAssigned(held)]
    /\ last' = Call("assign", TRUE, held.via, FALSE)
    /\ UNCHANGED <<user, now, pc, focus, util, peer, shared>>

\* an entity with some of the object-valued fields stored
WithObjects(S) ==
    LET u0 == initialize(EmailA, NameAl, Undef, CHOOSE g \in GeneratedIDs : TRUE,
                         0, 0).user
        u1 == IF "name" \in S THEN setName(u0, NameGood, 0).user ELSE u0
        u2 == IF "address" \in S
              THEN setAddress(u1, AddressRec(<<"Q","C">>), 0).user ELSE u1
    IN IF "social_links" \in S
       THEN setSocialLink(u2, "twitter", UrlHttps, 0).user ELSE u2

InitGetters ==
    /\ \E S \in SUBSET {"name", "address", "social_links"} :
          user = WithObjects(S)
    /\ now = 0
    /\ pc = "live"
    /\ last = Call("new", TRUE, EmptyStr, FALSE)
    /\ focus = "getters"
    /\ util = NoUtil
    /\ peer = NoUser
    /\ shared = {}
    /\ held = NoHeld

NextGetters == Get \/ CallerWrite \/ CallerAssign \/ Tick

SpecGetters == InitGetters /\ [][NextGetters]_vars

(***************************************************************************)
(* The public methods on an entity created by initialize                   *)
(***************************************************************************)
InitInitialized ==
    /\ \E email \in EmailInputs, displayName \in DisplayNameInputs,
          id \in IdInputs, genID \in GeneratedIDs :
          LET arg == [email |-> email, displayName |-> displayName,
                      id |-> id, genID |-> genID]
              r == initialize(email, displayName, id, genID, 0, 0)
          IN /\ r.ok
             /\ user = r.user
             /\ last = Call("initialize", TRUE, arg, FALSE)
    /\ now = 0
    /\ pc = "live"
    /\ focus \in Focuses
    /\ util = NoUtil
    /\ peer = NoUser
    /\ shared = {}
    /\ held = NoHeld

NextInitialized ==
    \/ Tick
    \/ Validate
    \/ SetEmail
    \/ SetDisplayName
    \/ SetHash
    \/ VerifyEmail
    \/ UnverifyEmail
    \/ SetMetadata
    \/ UpdateMetadata
    \/ SetPhone
    \/ VerifyPhone
    \/ UnverifyPhone
    \/ VerifyIdentity
    \/ UnverifyIdentity
    \/ SetFullNameObject
    \/ SetName
    \/ SetBirthdate
    \/ SetGender
    \/ SetAddress
    \/ SetBio
    \/ SetLanguage
    \/ SetTimezone
    \/ SetPicture
    \/ SetSocialLink
    \/ RemoveSocialLink
    \/ SetSetting
    \/ UpdateSettings
    \/ EnableNotifications
    \/ DisableNotifications
    \/ Restrict
    \/ Unrestrict
    \/ ReadOnly

SpecInitialized == InitInitialized /\ [][NextInitialized]_vars

(***************************************************************************)
(* Vocabulary of the properties                                            *)
(***************************************************************************)
FactoryOps == {"initialize", "fromJSON", "fromSupabase"}

MutatorOps ==
    {"setEmail", "setDisplayName", "setHash", "verifyEmail", "unverifyEmail",
     "setMetadata:phone", "setMetadata:verification", "setMetadata:bio",
     "updateMetadata:phone", "updateMetadata:verification",
     "updateMetadata:bio", "setPhone", "verifyPhone", "unverifyPhone",
     "verifyIdentity", "unverifyIdentity", "setFullNameObject", "setName",
     "setBirthdate", "setGender", "setAddress", "setBio", "setLanguage",
     "setTimezone", "setPicture", "setSocialLink", "removeSocialLink",
     "setSetting", "updateSettings", "enableNotifications",
     "disableNotifications", "restrict", "unrestrict"}

\* the mutators that validate their argument
ValidatingOps == {"setEmail", "setDisplayName", "setHash", "setFullNameObject",
                  "setBirthdate"}

PhoneChangingOps == {"setPhone", "setMetadata:phone", "updateMetadata:phone"}

HasThreat(s) == HasAngleTag(s) \/ HasEventHandler(s) \/ HasDangerScheme(s)

(***************************************************************************)
(* C1: when the email setter returns, the stored email is the value given  *)
(* and isEmailVerified is false, whatever the flag was before the call.    *)
(***************************************************************************)
C1_EmailSetterClearsFlag ==
    (last.op = "setEmail" /\ last.ok)
        => (user.email = last.arg /\ ~isEmailVerified(user))

\* the setter has returned on an entity whose email was verified
C1_Witness ==
    /\ last.op = "setEmail"
    /\ last.ok
    /\ last.was
    /\ user.email = EmailB
    /\ ~isEmailVerified(user)

(***************************************************************************)
(* C2: every operation that changes the stored phone value (setPhone,      *)
(* setMetadata with key phone, updateMetadata with a phone entry) returns  *)
(* with isPhoneVerified false.                                             *)
(***************************************************************************)
C2_PhoneChangeClearsFlag ==
    [][(/\ last'.op \in PhoneChangingOps
        /\ last'.ok
        /\ user'.metadata["phone"] # user.metadata["phone"])
          => ~isPhoneVerified(user')]_vars

(***************************************************************************)
(* C3: a mutator that throws (email, displayName, hash, fullNameObject     *)
(* setters, setBirthdate) leaves every field of the entity as it was.      *)
(***************************************************************************)
C3_FailedMutatorChangesNothing ==
    [][(last'.op \in ValidatingOps /\ ~last'.ok) => user' = user]_vars

\* the email setter has thrown on a verified entity last updated earlier
C3_Witness ==
    /\ last.op = "setEmail"
    /\ ~last.ok
    /\ last.arg = EmailNoDot
    /\ isEmailVerified(user)
    /\ user.email = EmailA
    /\ user.lastUpdate < now

(***************************************************************************)
(* C4: lastUpdate becomes the current instant in every mutator call that   *)
(* returns (removeSocialLink finding no social-link map mutates nothing),  *)
(* and is left as it was by a mutator that throws, by every read-only      *)
(* operation and by the passing of time.                                   *)
(***************************************************************************)
C4_LastUpdateTracksMutations ==
    [][pc = "live" =>
        IF /\ last'.op \in MutatorOps
           /\ last'.ok
           /\ ~(last'.op = "removeSocialLink"
                  /\ user.metadata["social_links"] = Undef)
        THEN user'.lastUpdate = now'
        ELSE user'.lastUpdate = user.lastUpdate]_vars

\* a settings mutator has moved lastUpdate forward to the current instant
C4_Witness ==
    /\ last.op = "setSetting"
    /\ last.ok
    /\ user.createdAt < now
    /\ user.lastUpdate = now

(***************************************************************************)
(* C5: for an entity built by any factory, lastUpdate never decreases from *)
(* one operation to the next and lastUpdate >= createdAt in every state.   *)
(***************************************************************************)
C5_LastUpdateMonotone ==
    [][pc' = "live" =>
        /\ user'.lastUpdate >= user'.createdAt
        /\ (pc = "live" => user'.lastUpdate >= user.lastUpdate)]_vars

(***************************************************************************)
(* C6: after construction no operation changes id or createdAt, and only   *)
(* the hash setter changes the stored digest.                              *)
(***************************************************************************)
C6_IdentityFrame ==
    [][pc = "live" =>
        /\ user'.id = user.id
        /\ user'.createdAt = user.createdAt
        /\ (last'.op # "setHash" => user'.hash = user.hash)]_vars

\* the email was changed and the digest is still the one of the identifier
C6_Witness ==
    /\ last.op = "setEmail"
    /\ last.ok
    /\ user.email = EmailB
    /\ user.hash = hashID(user.id)
    /\ user.createdAt < user.lastUpdate

(***************************************************************************)
(* C7: after every operation that returns, the factories included, the     *)
(* display name is non-empty after trimming.                               *)
(***************************************************************************)
C7_DisplayNameNotBlank ==
    pc = "live" => Trim(user.displayName) # EmptyStr

(***************************************************************************)
(* C8: after every operation that returns, the factories included, the     *)
(* stored email has the local@domain.tld shape.                            *)
(***************************************************************************)
C8_EmailWellFormed ==
    pc = "live" => EmailRegexTest(user.email)

(***************************************************************************)
(* C9: the displayName setter and initialize throw for every value with an *)
(* angle-bracket tag, an event-handler attribute or a javascript:/data:    *)
(* scheme, and a display-name setter that throws keeps the prior value.    *)
(***************************************************************************)
C9_DisplayNameRejectsMarkup ==
    [][/\ (last'.op \in {"setDisplayName", "initialize"} /\ last'.ok)
            => ~HasThreat(user'.displayName)
       /\ (last'.op = "setDisplayName" /\ ~last'.ok)
            => user'.displayName = user.displayName]_vars

(***************************************************************************)
(* C10: after setBio and every other mutator of free-text metadata the     *)
(* value stored by the call holds no angle-bracket tag, no event-handler   *)
(* attribute and no javascript: content; setBio("I love <b>coding</b>")    *)
(* stores "I love coding".                                                 *)
(***************************************************************************)
FreeTextOps == {"setBio", "setMetadata:bio", "updateMetadata:bio", "setName",
                "setAddress", "setLanguage", "setTimezone"}

\* the text the call has written
StoredText(u, op) ==
    CASE op \in {"setBio", "setMetadata:bio", "updateMetadata:bio"} ->
            u.metadata["bio"][1]
      [] op = "setName" -> u.metadata["name"][1].first_name
      [] op = "setAddress" -> u.metadata["address"][1].city
      [] op = "setLanguage" -> u.metadata["language"][1]
      [] op = "setTimezone" -> u.metadata["timezone"][1]

C10_FreeTextCleanOnWrite ==
    (last.op \in FreeTextOps /\ last.ok) =>
        /\ ~HasAngleTag(StoredText(user, last.op))
        /\ ~HasEventHandler(StoredText(user, last.op))
        /\ ~Contains(ToLower(StoredText(user, last.op)),
                     <<"j","a","v","a","s","c","r","i","p","t",":">>)
        /\ (last.op = "setBio" /\ last.arg = BioMarkup
              => user.metadata["bio"] = Some(BioMarkupClean))

(***************************************************************************)
(* C11: setPicture and setSocialLink throw for a javascript: URI and leave *)
(* the entity as it was, so the picture and every social link stored by a  *)
(* call that returned carry no javascript: scheme.                         *)
(***************************************************************************)
\* the scheme of the URI is javascript:
IsScriptURI(s) ==
    LET scheme == <<"j","a","v","a","s","c","r","i","p","t",":">>
    IN Len(s) >= Len(scheme) /\ ToLower(SubSeq(s, 1, Len(scheme))) = scheme

C11_LinksRejectScriptScheme ==
    [][/\ (last'.op \in {"setPicture", "setSocialLink"} /\ IsScriptURI(last'.arg))
            => (~last'.ok /\ user' = user)
       /\ (last'.op = "setPicture" /\ last'.ok)
            => ~IsScriptURI(user'.metadata["picture"][1])
       /\ (last'.op = "setSocialLink" /\ last'.ok)
            => \A p \in DOMAIN SocialLinksOf(user') :
                   ~IsScriptURI(SocialLinksOf(user')[p])]_vars

(***************************************************************************)
(* C12: the stored birthdate, when present, names a real calendar day in   *)
(* YYYY-MM-DD form; setBirthdate throws for "2023-02-30" and keeps the     *)
(* stored birthdate.                                                       *)
(***************************************************************************)
C12_BirthdateIsCalendarDate ==
    [][/\ (pc' = "live" /\ user'.metadata["birthdate"] # Undef)
            => YYYYMMDDToDateReturns(user'.metadata["birthdate"][1])
       /\ (last'.op = "setBirthdate" /\ last'.arg = BirthStr(DateStrNoDay))
            => (~last'.ok
                /\ user'.metadata["birthdate"] = user.metadata["birthdate"])]_vars

(***************************************************************************)
(* C13: for every entity, fromJSON of its toJSON(), handed over as the     *)
(* structure or as the serialized string, returns an entity with the same  *)
(* id, email, display name, hash, metadata, settings (restrictedUntil      *)
(* included), createdAt and lastUpdate.                                    *)
(***************************************************************************)
C13_RoundTrip ==
    pc = "live" =>
        /\ fromJSON(toJSON(user), now) = Returned(user)
        /\ fromJSON(JSONStringify(toJSON(user)), now) = Returned(user)

(***************************************************************************)
(* C14: isCurrentlyRestricted() is true exactly when isRestricted is true  *)
(* and restrictedUntil is absent or later than the clock; restrict(date)   *)
(* leaves it true exactly while the clock is before the date, and          *)
(* restrict() with no argument leaves it true with no expiry, also when an *)
(* expiry was stored before.                                               *)
(***************************************************************************)
SystemOf(u) == u.settings["system"][1]

C14_RestrictionFollowsClock ==
    [][/\ pc' = "live" =>
            /\ ~isCurrentlyRestrictedThrows(user')
            /\ isCurrentlyRestricted(user', now') <=>
                  /\ SystemOf(user')["isRestricted"] = Some(TRUE)
                  /\ \/ SystemOf(user')["restrictedUntil"] = Undef
                     \/ now' < SystemOf(user')["restrictedUntil"][1].t
       /\ last'.op = "restrict" =>
            /\ SystemOf(user') = SystemRec(Some(TRUE), last'.arg)
            /\ last'.arg = Undef => isCurrentlyRestricted(user', now')
            /\ last'.arg # Undef =>
                   (isCurrentlyRestricted(user', now') <=> now' < last'.arg[1].t)]_vars

\* restrict() at the last instant, after an expiry had been stored
C14_Witness ==
    /\ last.op = "restrict" /\ last.arg = Undef /\ last.was
    /\ now = MaxTime
    /\ isCurrentlyRestricted(user, now)

(***************************************************************************)
(* C15: unrestrict() stores isRestricted false and no restrictedUntil, so  *)
(* the entity is not restricted afterwards; restrict and unrestrict leave  *)
(* every setting outside system as it was, enableNotifications and         *)
(* disableNotifications change the notifications setting only.             *)
(***************************************************************************)
\* isRestricted and restrictedUntil as stored: both undefined when there is
\* no system record
SystemFields(u) ==
    IF u.settings["system"] = Undef THEN SystemRec(Undef, Undef)
    ELSE SystemOf(u)

C15_SettingsFrame ==
    [][/\ last'.op = "unrestrict" =>
            /\ SystemOf(user') = SystemRec(Some(FALSE), Undef)
            /\ ~isCurrentlyRestrictedThrows(user')
            /\ ~isCurrentlyRestricted(user', now')
       /\ last'.op \in {"restrict", "unrestrict"} =>
            \A k \in SettingKeys \ {"system"} :
                user'.settings[k] = user.settings[k]
       /\ last'.op \in {"enableNotifications", "disableNotifications"} =>
            /\ user'.settings["notifications"]
                  = Some(last'.op = "enableNotifications")
            /\ SystemFields(user') = SystemFields(user)
            /\ \A k \in SettingKeys \ {"notifications", "system"} :
                  user'.settings[k] = user.settings[k]]_vars

\* unrestrict() on a restricted entity with a caller-defined setting
C15_Witness ==
    /\ last.op = "unrestrict" /\ last.was
    /\ user.settings["theme"] # Undef
    /\ user.settings["notifications"] = Some(FALSE)

(***************************************************************************)
(* C16: each of the six verification methods leaves its own flag at the    *)
(* value it names and the other two flags as they were (false when no      *)
(* verification record was stored), and the record is stored afterwards;   *)
(* isFullyVerified is true exactly when the three flags are true.          *)
(***************************************************************************)
VerificationOps == {"verifyEmail", "unverifyEmail", "verifyPhone",
                    "unverifyPhone", "verifyIdentity", "unverifyIdentity"}

\* the three flags as the getters read them
Flags(u) == <<isEmailVerified(u), isPhoneVerified(u), isIdentityVerified(u)>>

\* the flag a method names and the value it gives it
FlagOf(op) ==
    CASE op \in {"verifyEmail", "unverifyEmail"} -> 1
      [] op \in {"verifyPhone", "unverifyPhone"} -> 2
      [] OTHER -> 3

ValueOf(op) == op \in {"verifyEmail", "verifyPhone", "verifyIdentity"}

C16_VerificationFlags ==
    [][/\ last'.op \in VerificationOps =>
            /\ last'.ok
            /\ user'.metadata["verification"] # Undef
            /\ Flags(user') = [Flags(user) EXCEPT ![FlagOf(last'.op)] =
                                                     ValueOf(last'.op)]
            /\ last'.was => \A i \in 1..3 :
                   i # FlagOf(last'.op) => ~Flags(user')[i]
       /\ pc' = "live" =>
            (isFullyVerified(user') <=> Flags(user') = <<TRUE, TRUE, TRUE>>)]_vars

\* verifyPhone on an entity that had no verification record
C16_Witness ==
    /\ last.op = "verifyPhone" /\ last.was
    /\ Flags(user) = <<FALSE, TRUE, FALSE>>

(***************************************************************************)
(* C17: validate() returns for every entity, and its errors hold exactly   *)
(* one message for each check that fails: missing id, email, display name, *)
(* hash; malformed email; invalid createdAt, lastUpdate; malformed phone   *)
(* or birthdate when present. isValid is true exactly when there is no     *)
(* message. An entity with no email, a malformed phone and a malformed     *)
(* birthdate gets the email message and both format messages.              *)
(***************************************************************************)
\* the checks an entity fails, by the message of each
FailedChecks(u) ==
    {m \in {"ID is required"} : u.id = EmptyStr}
    \cup {m \in {"Email is required"} : u.email = EmptyStr}
    \cup {m \in {"Display name is required"} : u.displayName = EmptyStr}
    \cup {m \in {"Hash is required"} : u.hash = EmptyStr}
    \cup {m \in {"Invalid email format: Error: Invalid email format"} :
            ~EmailRegexTest(u.email)}
    \cup {m \in {"Invalid createdAt date"} : u.createdAt = NaNTime}
    \cup {m \in {"Invalid lastUpdate date"} : u.lastUpdate = NaNTime}
    \cup {m \in {"Invalid phone number format"} :
            u.metadata["phone"] # Undef
            /\ ~PhoneRegexTest(u.metadata["phone"][1])}
    \cup {m \in {"Invalid birthdate format"} :
            u.metadata["birthdate"] # Undef
            /\ ~BirthdateRegexTest(u.metadata["birthdate"][1])}

Messages(errors) == {errors[i] : i \in 1..Len(errors)}

C17_ValidateReportsEveryFinding ==
    pc = "live" =>
        LET r == validate(user) IN
        /\ r.ok
        /\ Messages(r.errors) = FailedChecks(user)
        /\ Len(r.errors) = Cardinality(FailedChecks(user))
        /\ r.isValid <=> r.errors = <<>>
        /\ (/\ user.email = EmptyStr
            /\ user.metadata["phone"] = Some(PhoneLeadingZero)
            /\ user.metadata["birthdate"] = Some(DateStrShort))
             => {"Email is required", "Invalid phone number format",
                 "Invalid birthdate format"} \subseteq Messages(r.errors)

\* validate() was called on an entity with no email, a malformed phone and
\* a malformed birthdate and nothing else wrong
C17_Witness ==
    /\ last.op = "validate" /\ last.ok
    /\ user.email = EmptyStr
    /\ validate(user).errors =
         <<"Email is required",
           "Invalid email format: Error: Invalid email format",
           "Invalid phone number format", "Invalid birthdate format">>

(***************************************************************************)
(* C18: validate() changes no field of the entity, lastUpdate included,    *)
(* and a second call right after it returns the same isValid and errors.   *)
(***************************************************************************)
C18_ValidateReadOnly ==
    [][last'.op = "validate" =>
          /\ user' = user
          /\ validate(user').isValid = validate(user).isValid
          /\ validate(user').errors = validate(user).errors]_vars

\* validate() was called on an entity whose lastUpdate is invalid
C18_Witness ==
    /\ last.op = "validate"
    /\ user.lastUpdate = NaNTime
    /\ ~validate(user).isValid

(***************************************************************************)
(* C19: toPublicJSON() has the five members id, displayName, picture, bio  *)
(* and createdAt and no other, and its value does not depend on the email, *)
(* the hash, the settings, lastUpdate or any other metadata field.         *)
(***************************************************************************)
PublicKeys == {"id", "displayName", "picture", "bio", "createdAt"}

C19_PublicViewIsAllowlist ==
    pc = "live" =>
        LET r == toPublicJSON(user) IN
        /\ DOMAIN r = PublicKeys
        /\ r.id = user.id /\ r.displayName = user.displayName
        /\ r.picture = user.metadata["picture"] /\ r.bio = user.metadata["bio"]
        /\ NewDate(r.createdAt) = user.createdAt
        /\ \A e \in EmailInputs, h \in HashInputs, t \in 0..MaxTime :
              toPublicJSON([user EXCEPT !.email = e, !.hash = h,
                                        !.lastUpdate = t,
                                        !.settings = DefaultSettings]) = r
        /\ \A k \in MetaKeys \ {"picture", "bio"} :
              toPublicJSON([user EXCEPT !.metadata[k] = Undef]) = r

\* toPublicJSON() of an entity with a phone, verified channels and a bio
C19_Witness ==
    /\ last.op = "toPublicJSON" /\ last.ok
    /\ user.metadata["phone"] # Undef
    /\ user.metadata["bio"] # Undef
    /\ isEmailVerified(user)

(***************************************************************************)
(* C20: no key of toSupabaseJSON() maps to undefined or to null; an entity *)
(* with no name and no birthdate has no age, name, full_name, first_name,  *)
(* family_name or birthdate key.                                           *)
(***************************************************************************)
C20_SupabaseViewOmitsAbsent ==
    pc = "live" =>
        LET r == toSupabaseJSON(user, now) IN
        /\ \A k \in DOMAIN r : r[k].typ \notin {"undefined", "null"}
        /\ (user.metadata["name"] = Undef /\ user.metadata["birthdate"] = Undef)
             => DOMAIN r \cap {"age", "name", "full_name", "first_name",
                               "family_name", "birthdate"} = {}

(***************************************************************************)
(* C21: getProfileCompletionPercentage() is 0 right after initialize, lies *)
(* in 0..100, grows strictly when a call fills one more of name, picture,  *)
(* phone, gender, birthdate, address, bio, and is 100 when the seven are   *)
(* filled.                                                                 *)
(***************************************************************************)
FilledFields(u) ==
    {f \in CompletionFields :
        u.metadata[f] # Undef /\ u.metadata[f] # Some(EmptyStr)}

C21_CompletionGrows ==
    [][/\ last.op = "initialize" => getProfileCompletionPercentage(user) = 0
       /\ getProfileCompletionPercentage(user') \in 0..100
       /\ (FilledFields(user) \subseteq FilledFields(user')
           /\ FilledFields(user') # FilledFields(user))
            => getProfileCompletionPercentage(user')
                 > getProfileCompletionPercentage(user)
       /\ FilledFields(user') = CompletionFields
            <=> getProfileCompletionPercentage(user') = 100]_vars

\* the seventh field has just been filled
C21_Witness ==
    /\ last.op = "fill" /\ ~last.was
    /\ FilledFields(user) = CompletionFields
    /\ getProfileCompletionPercentage(user) = 100

(***************************************************************************)
(* C22: initialize throws and leaves no entity for an empty email, an      *)
(* empty display name or a malformed email; when it returns, the entity    *)
(* has the id supplied (a generated one for an absent or blank id), the    *)
(* hash of that id, three false verification flags, notifications on, no   *)
(* restriction, and createdAt <= lastUpdate both read during the call.     *)
(***************************************************************************)
C22_InitializeContract ==
    [][last'.op = "initialize" =>
         LET in == last'.arg IN
         /\ (\/ in.email = EmptyStr
             \/ in.displayName = EmptyStr
             \/ ~EmailRegexTest(in.email))
              => (~last'.ok /\ pc' = "new" /\ user' = NoUser)
         /\ last'.ok =>
              /\ pc' = "live"
              /\ user'.email = in.email
              /\ user'.displayName = in.displayName
              /\ user'.id # EmptyStr
              /\ user'.id = IF in.id # Undef /\ Trim(in.id[1]) # EmptyStr
                            THEN in.id[1] ELSE in.genID
              /\ user'.hash = hashID(user'.id)
              /\ user'.metadata["verification"]
                    = Some(VerificationRec(FALSE, FALSE, FALSE))
              /\ user'.settings["notifications"] = Some(TRUE)
              /\ user'.settings["system"]
                    = Some(SystemRec(Some(FALSE), Undef))
              /\ now <= user'.createdAt
              /\ user'.createdAt <= user'.lastUpdate
              /\ user'.lastUpdate <= now']_vars

\* initialize with a blank id: the generated id is used, and the clock moved
\* between the two readings
C22_Witness ==
    /\ last.op = "initialize" /\ last.ok
    /\ last.arg.id = Some(Blank)
    /\ user.id \in GeneratedIDs
    /\ user.createdAt < user.lastUpdate

(***************************************************************************)
(* C23: fromJSON throws exactly when id, email, displayName or hash is     *)
(* missing, empty or not a string, and its error names the first such      *)
(* field in that order; when it returns, the four fields are the payload's *)
(* as given, metadata is the payload's or empty, settings are the          *)
(* payload's or {notifications: true, system: {isRestricted: false}}.      *)
(***************************************************************************)
\* the field is missing, empty or not a string
BadField(v) == v.typ = "undefined" \/ v.typ # "string" \/ v.val = EmptyStr

\* the name of the first bad field in the order id, email, displayName, hash
FirstBadField(data) ==
    LET order == <<"id", "email", "displayName", "hash">>
        value == <<data.id, data.email, data.displayName, data.hash>>
        bad == {i \in 1..4 : BadField(value[i])}
    IN IF bad = {} THEN ""
       ELSE order[CHOOSE i \in bad : \A j \in bad : i <= j]

C23_FromJSONContract ==
    [][last'.op = "fromJSON" =>
         LET data == last'.arg IN
         /\ last'.ok <=> FirstBadField(data) = ""
         /\ ~last'.ok =>
              /\ pc' = "new"
              /\ fromJSONError(data) =
                   CASE FirstBadField(data) = "id" ->
                          "Invalid user data: missing or invalid id"
                     [] FirstBadField(data) = "email" ->
                          "Invalid user data: missing or invalid email"
                     [] FirstBadField(data) = "displayName" ->
                          "Invalid user data: missing or invalid displayName"
                     [] FirstBadField(data) = "hash" ->
                          "Invalid user data: missing or invalid hash"
         /\ last'.ok =>
              /\ user'.id = data.id.val
              /\ user'.email = data.email.val
              /\ user'.displayName = data.displayName.val
              /\ user'.hash = data.hash.val
              /\ user'.metadata = IF data.metadata = Undef THEN EmptyMetadata
                                  ELSE data.metadata[1]
              /\ user'.settings =
                   IF data.settings # Undef THEN data.settings[1]
                   ELSE [k \in SettingKeys |->
                           CASE k = "notifications" -> Some(TRUE)
                             [] k = "system" ->
                                  Some(SystemRec(Some(FALSE), Undef))
                             [] OTHER -> Undef]]_vars

\* a payload without metadata and settings, with a malformed email and a
\* blank display name, was accepted as it is
C23_Witness ==
    /\ last.op = "fromJSON" /\ last.ok
    /\ last.arg.metadata = Undef /\ last.arg.settings = Undef
    /\ user.metadata = EmptyMetadata
    /\ user.email = EmailNoDot
    /\ user.displayName = Blank

(***************************************************************************)
(* C24: fromSupabase sets email_verified and phone_verified to whether the *)
(* confirmation timestamps are present and identity_verified to false, the *)
(* hash to the hash of the provider id, notifications to true and          *)
(* isRestricted to false when app_metadata has none, and copies every      *)
(* other app_metadata key to settings under its name.                      *)
(***************************************************************************)
C24_FromSupabaseMapping ==
    [][(last'.op = "fromSupabase" /\ last'.ok) =>
         LET su == last'.arg
             am == IF su.app_metadata = Undef THEN NoAppMeta
                   ELSE su.app_metadata[1]
         IN /\ user'.metadata["verification"] =
                 Some(VerificationRec(su.email_confirmed_at # Undef,
                                      su.phone_confirmed_at # Undef, FALSE))
            /\ user'.hash = hashID(su.id[1])
            /\ am["notifications"] = Undef
                 => user'.settings["notifications"] = Some(TRUE)
            /\ am["is_restricted"] = Undef
                 => /\ user'.settings["system"] # Undef
                    /\ user'.settings["system"][1]["isRestricted"] = Some(FALSE)
            /\ \A k \in AppMetaKeys \ {"notifications", "is_restricted",
                                       "restricted_until"} :
                 am[k] # Undef => user'.settings[k] = am[k]]_vars

(***************************************************************************)
(* C25: sanitizeInput returns for every input, and when the host sanitizer *)
(* is unavailable or throws, the result is the output of the degraded      *)
(* path: it holds no angle-bracket tag and none of javascript:, data:,     *)
(* onload=, onerror=, onclick=.                                            *)
(***************************************************************************)
HasListedSubstring(s) == HasDangerScheme(s) \/ HasEventHandler(s)

C25_SanitizeDegrades ==
    [][last'.op = "sanitizeInput" =>
         /\ last'.ok
         /\ (util'.sanitizer = "unavailable" \/ last'.was) =>
              /\ util'.out = Some(IF last'.arg.typ = "string"
                                  THEN HardenedFallback(last'.arg.val)
                                  ELSE EmptyStr)
              /\ ~HasAngleTag(util'.out[1])
              /\ ~HasListedSubstring(util'.out[1])]_vars

(***************************************************************************)
(* C26: checkForHTMLTags returns for every input, returns false for a      *)
(* non-string, empty or blank input, and, when the host sanitizer is       *)
(* unavailable, returns true on every call for an input with an            *)
(* angle-bracket tag, an HTML entity, a listed tag opener, onload=,        *)
(* onerror=, onclick=, javascript: or data:.                               *)
(***************************************************************************)
HasEntity(s) == \E i \in 1..Len(s) : EntityEnd(s, i) # 0

IsDangerous(s) ==
    \/ HasAngleTag(s) \/ HasEntity(s) \/ HasTagOpener(s)
    \/ HasEventHandler(s) \/ HasDangerScheme(s)

C26_MatcherAuthoritative ==
    [][last'.op = "checkForHTMLTags" =>
         LET input == last'.arg IN
         /\ last'.ok
         /\ (input.typ # "string" \/ Trim(input.val) = EmptyStr)
              => util'.out = Some(FALSE)
         /\ (/\ util'.sanitizer = "unavailable"
             /\ input.typ = "string"
             /\ Trim(input.val) # EmptyStr
             /\ IsDangerous(input.val))
              => util'.out = Some(TRUE)]_vars


(***************************************************************************)
(* C29: a mutator that stores a structured name fails and leaves the       *)
(* stored name as it was when first_name or last_name is blank after       *)
(* trimming, so the name a successful call stores has a non-blank first    *)
(* and last name.                                                          *)
(***************************************************************************)
NameOps == {"setFullNameObject", "setName"}

HasBlankName(u) ==
    /\ u.metadata["name"] # Undef
    /\ \/ Trim(u.metadata["name"][1].first_name) = EmptyStr
       \/ Trim(u.metadata["name"][1].last_name) = EmptyStr

C29_NameMutatorsRejectBlank ==
    [][last'.op \in NameOps /\ focus = "profile" /\ pc = "live" =>
          IF last'.ok
          THEN ~HasBlankName(user')
          ELSE user'.metadata["name"] = user.metadata["name"]]_vars

(***************************************************************************)
(* C30: setPhone fails and leaves the phone value, the phone verification  *)
(* flag and lastUpdate unchanged for every value that does not match the   *)
(* phone shape (optional +, then 2 to 15 digits, the first one not zero).  *)
(***************************************************************************)
C30_SetPhoneRejectsMalformed ==
    [][last'.op = "setPhone" /\ ~PhoneRegexTest(last'.arg) =>
          /\ ~last'.ok
          /\ user'.metadata["phone"] = user.metadata["phone"]
          /\ isPhoneVerified(user') = isPhoneVerified(user)
          /\ user'.lastUpdate = user.lastUpdate]_vars


(***************************************************************************)
(* C27: two instances share no mutable state: with b = a.clone(), or a and *)
(* b built by fromJSON from one payload object, no call on b (the email    *)
(* setter, setPhone, a verification method, setMetadata, updateSettings,   *)
(* restrict) changes a value observable on a.                              *)
(***************************************************************************)
PeerOps ==
    {"peer.setEmail", "peer.setPhone", "peer.setMetadata",
     "peer.updateSettings", "peer.restrict"}
      \cup {"peer." \o op : op \in VerificationOps}

C27_InstancesShareNothing ==
    [][last'.op \in PeerOps /\ peer # NoUser => user' = user]_vars


(***************************************************************************)
(* C28: the values returned by the getters and by toJSON are defensive     *)
(* copies: whatever the caller writes into a returned value or into an     *)
(* object nested in it, the state of the entity, lastUpdate included,      *)
(* stays as it was.                                                        *)
(***************************************************************************)
C28_GettersReturnCopies ==
    [][last'.op \in {"write", "assign"} /\ held # NoHeld => user' = user]_vars


(***************************************************************************)
(* C31: an entity created by initialize stays valid: after every public    *)
(* operation, successful or failed, validate() returns isValid true and    *)
(* an empty list of errors.                                                *)
(***************************************************************************)
C31_InitializedStaysValid ==
    /\ validate(user).isValid
    /\ validate(user).errors = <<>>


(***************************************************************************)
(* C32: a verification flag that is false (cleared by the email setter or  *)
(* by setPhone) stays false under every public operation other than        *)
(* verifyEmail, respectively verifyPhone: no generic mutator turns a       *)
(* verification flag to true.                                              *)
(***************************************************************************)
C32_FlagsRiseByVerifyOnly ==
    [][pc = "live" =>
          /\ (~isEmailVerified(user) /\ isEmailVerified(user'))
                => last'.op = "verifyEmail"
          /\ (~isPhoneVerified(user) /\ isPhoneVerified(user'))
                => last'.op = "verifyPhone"]_vars


(***************************************************************************)
(* C33: the restriction status survives serialization: after               *)
(* restrict(date), the entity fromJSON builds from the serialized string   *)
(* of toJSON() answers isCurrentlyRestricted() as the original does at     *)
(* every instant: true before the date, false from the date on.            *)
(***************************************************************************)
Rehydrated(u, t) == fromJSON(JSONStringify(toJSON(u)), t)

C33_RestrictionSurvivesJSON ==
    (/\ pc = "live"
     /\ last.op = "restrict" /\ last.ok /\ last.arg # Undef
     /\ Rehydrated(user, now).ok)
        => \A t \in 0..MaxTime :
              /\ isCurrentlyRestricted(user, t) = (t < last.arg[1].t)
              /\ isCurrentlyRestricted(Rehydrated(user, now).user, t)
                    = isCurrentlyRestricted(user, t)


(***************************************************************************)
(* C34: in every state reached from a factory by public operations,        *)
(* settings.system exists with a boolean isRestricted, so                  *)
(* isCurrentlyRestricted() returns a boolean and never throws.             *)
(***************************************************************************)
C34_SystemRecordAlwaysThere ==
    pc = "live" =>
        /\ user.settings["system"] # Undef
        /\ user.settings["system"][1]["isRestricted"] \in {Some(TRUE), Some(FALSE)}
        /\ ~isCurrentlyRestrictedThrows(user)


(***************************************************************************)
(* C35: each social-link operation touches one platform key:               *)
(* setSocialLink(p, u) leaves the map with p mapped to u and every other   *)
(* platform as it was, removeSocialLink(p) leaves the map without p and    *)
(* every other platform as it was, and removeSocialLink on an entity with  *)
(* no social-link map changes nothing, lastUpdate included. No other       *)
(* metadata field changes.                                                 *)
(***************************************************************************)
OtherLinksKept(u1, u2, p) ==
    /\ DOMAIN SocialLinksOf(u2) \ {p} = DOMAIN SocialLinksOf(u1) \ {p}
    /\ \A q \in DOMAIN SocialLinksOf(u1) \ {p} :
          SocialLinksOf(u2)[q] = SocialLinksOf(u1)[q]
    /\ \A k \in MetaKeys \ {"social_links"} : u2.metadata[k] = u1.metadata[k]

C36_DateBirthdateIsFormatted ==
    [][(/\ last'.op = "setBirthdate"
        /\ last'.arg.isDate
        /\ last'.arg.date.valid) =>
          LET stored == user'.metadata["birthdate"]
              date == last'.arg.date
          IN /\ last'.ok
             /\ stored # Undef
             /\ BirthdateRegexTest(stored[1])
             /\ DigitsToNat(SubSeq(stored[1], 1, 4)) = date.year
             /\ DigitsToNat(SubSeq(stored[1], 6, 7)) = date.month
             /\ DigitsToNat(SubSeq(stored[1], 9, 10)) = date.day
             /\ \A i \in 1..Len(validate(user').errors) :
                   validate(user').errors[i] # "Invalid birthdate format"]_vars


(***************************************************************************)
(* C37: checkForHTMLTags is a function of its argument alone: whatever     *)
(* calls were made before, two calls with the same input return the same   *)
(* boolean, with or without the host sanitizer.                            *)
(***************************************************************************)
C37_MatcherIsAFunction ==
    [][(/\ last.op = "checkForHTMLTags"
        /\ last'.op = "checkForHTMLTags"
        /\ last'.arg = last.arg
        /\ last'.was = last.was) => util'.out = util.out]_vars


(***************************************************************************)
(* C38: for every display name the displayName setter accepts (not blank,  *)
(* possibly with leading, trailing or repeated spaces) and every stored    *)
(* name, the initials getter returns one or two characters, each the       *)
(* upper-cased first character of a word of the name or of the display     *)
(* name, and never throws.                                                 *)
(***************************************************************************)
\* the words of a text: its stretches without spaces
WordsOf(s) == {w \in {SplitOnSpace(s)[i] : i \in 1..Len(SplitOnSpace(s))} :
                  w # EmptyStr}

WordInitials(u) ==
    LET texts == {u.displayName}
                   \cup (IF u.metadata["name"] = Undef THEN {}
                         ELSE {u.metadata["name"][1].first_name,
                               u.metadata["name"][1].last_name})
    IN {ToUpperChar(w[1]) : w \in UNION {WordsOf(s) : s \in texts}}

C38_InitialsAreWordInitials ==
    (pc = "live" /\ Trim(user.displayName) # EmptyStr) =>
        /\ initials(user).ok
        /\ Len(initials(user).out) \in {1, 2}
        /\ \A i \in 1..Len(initials(user).out) :
              initials(user).out[i] \in WordInitials(user)

====
